---- MODULE Spec2Model ----
(***************************************************************************)
(* Model of the FSM executor of fusion-c (src/Fsm/src/fsm.cpp): greedy     *)
(* validate, streaming feed / endOfStream, reset / resetStream, the        *)
(* backtracking validator, capture groups driven by state callbacks,       *)
(* trace and metrics.  One action per public operation; every action       *)
(* models the whole call.                                                   *)
(***************************************************************************)
EXTENDS Integers, Sequences, FiniteSets, TLC

(***************************************************************************)
(* Bounds                                                                   *)
(***************************************************************************)
MaxLen == 2

MaxCaptures == 1

(***************************************************************************)
(* Program constants                                                        *)
(***************************************************************************)
PRIORITY_LOW == 25

PRIORITY_NORMAL == 50

PRIORITY_HIGH == 75

NUL == 0

InvalidId == 0

(***************************************************************************)
(* The graphs and inputs the model ranges over                              *)
(***************************************************************************)
ByteA == 97

ByteB == 98

Alphabet == {ByteA, ByteB}

States == {1, 2, 3}

CaptureName == "n"

RECURSIVE SeqsUpTo(_)
SeqsUpTo(n) ==
    IF n = 0 THEN {<<>>}
    ELSE LET shorter == SeqsUpTo(n - 1)
         IN  shorter \cup {Append(s, c) : s \in {t \in shorter : Len(t) = n - 1}, c \in Alphabet}

Inputs == SeqsUpTo(MaxLen)

Edge(f, t, ty, r, p) == [from |-> f, to |-> t, type |-> ty, rule |-> r, priority |-> p]

\* Candidate edges, in the order in which a builder would add them.
Pool ==
    << Edge(1, 2, "ABNF_RULE", {ByteA}, PRIORITY_HIGH),
       Edge(1, 3, "ABNF_RULE", {ByteA}, PRIORITY_NORMAL),
       Edge(2, 2, "ABNF_RULE", {ByteB}, PRIORITY_LOW),
       Edge(3, 3, "ABNF_RULE", {ByteB}, PRIORITY_NORMAL),
       Edge(2, 3, "EPSILON", {}, PRIORITY_NORMAL),
       Edge(1, 1, "ABNF_RULE", {ByteA, ByteB}, PRIORITY_HIGH) >>

AcceptSets == {{3}, {1, 2}}

NoCallbacks == [s \in States |-> "none"]

\* State callbacks are lambdas that call beginCapture / endCapture on the FSM.
CallbackConfigs ==
    { [entry |-> NoCallbacks, exit |-> NoCallbacks, transition |-> "none"],
      [entry |-> [NoCallbacks EXCEPT ![2] = "begin"],
       exit  |-> [NoCallbacks EXCEPT ![2] = "end"],
       transition |-> "none"] }

\* DebugFlags::FULL
FlagSets == { {"TRACE_TRANSITIONS", "TRACE_STATE_CHANGES", "VERBOSE_ERRORS", "COLLECT_METRICS"} }

(***************************************************************************)
(* State                                                                    *)
(***************************************************************************)
VARIABLES
    states_,                 \* std::unordered_map<StateID, State>: id -> type
    next_state_id_,
    next_transition_id_,
    transitions_,            \* std::vector<Transition>
    transition_map_,         \* state -> outgoing transitions, priority order
    transition_map_dirty_,   \* set by every write to transitions_
    accept_states_,
    on_entry, on_exit,       \* State::on_entry / on_exit
    on_transition,           \* Transition::on_transition, by transition id
    debug_flags,             \* debug_config_.flags
    max_backtrack_depth_,
    is_choice_point,         \* the states whose State::is_choice_point is set
    start_state_,
    current_state_,
    last_error_,
    trace_,
    metrics_,
    captures_,
    active_captures_,
    current_input_position_,
    current_input_,
    stream_state_,
    streaming_mode_,
    choice_stack_,
    backtracking_stats_,
    client_input,            \* the byte string the client validates or streams
    call,                    \* the last call made by the client and what it returned
    history,                 \* what the last run did at its choice points, in order
    user_data_,              \* the client's log, written by its logging callbacks
    abnf                     \* the ABNF arguments and objects the client holds

graphVars == <<states_, next_state_id_, next_transition_id_, transitions_, transition_map_,
               transition_map_dirty_, accept_states_, on_entry, on_exit, on_transition,
               debug_flags, max_backtrack_depth_, is_choice_point>>

execVars == <<start_state_, current_state_, last_error_, trace_, metrics_, captures_,
              active_captures_, current_input_position_, current_input_,
              stream_state_, streaming_mode_, choice_stack_, backtracking_stats_>>

vars == <<graphVars, execVars, client_input, call, history, user_data_, abnf>>

(***************************************************************************)
(* Helpers                                                                  *)
(***************************************************************************)
NoError == [type |-> "NONE"]

ValidationError(ty, pos, ch, st) ==
    [type |-> ty, position |-> pos, character |-> ch, current_state |-> st]

ZeroMetrics ==
    [transitions_taken |-> 0, states_visited |-> 0,
     characters_processed |-> 0, epsilon_transitions |-> 0]

ZeroStats ==
    [choice_points_created |-> 0, backtracks_performed |-> 0,
     max_stack_depth |-> 0, paths_explored |-> 0]

hasTraceTransitions == "TRACE_TRANSITIONS" \in debug_flags

hasTraceStateChanges == "TRACE_STATE_CHANGES" \in debug_flags

hasCollectMetrics == "COLLECT_METRICS" \in debug_flags

\* The mutable members of the FSM object, as one record.
Self ==
    [start_state_ |-> start_state_,
     current_state_ |-> current_state_,
     last_error_ |-> last_error_,
     trace_ |-> trace_,
     metrics_ |-> metrics_,
     captures_ |-> captures_,
     active_captures_ |-> active_captures_,
     current_input_position_ |-> current_input_position_,
     current_input_ |-> current_input_,
     stream_state_ |-> stream_state_,
     streaming_mode_ |-> streaming_mode_,
     choice_stack_ |-> choice_stack_,
     backtracking_stats_ |-> backtracking_stats_,
     history |-> <<>>,
     user_data_ |-> <<>>]

Install(m) ==
    /\ start_state_' = m.start_state_
    /\ current_state_' = m.current_state_
    /\ last_error_' = m.last_error_
    /\ trace_' = m.trace_
    /\ metrics_' = m.metrics_
    /\ captures_' = m.captures_
    /\ active_captures_' = m.active_captures_
    /\ current_input_position_' = m.current_input_position_
    /\ current_input_' = m.current_input_
    /\ stream_state_' = m.stream_state_
    /\ streaming_mode_' = m.streaming_mode_
    /\ choice_stack_' = m.choice_stack_
    /\ backtracking_stats_' = m.backtracking_stats_
    /\ history' = m.history
    /\ user_data_' = m.user_data_

\* Result of a step that may be cut short by an exception.
Ok(m) == [thrown |-> FALSE, m |-> m]

\* A local variable: v is evaluated once and F continues with its value.
Local(v, F(_)) == CHOOSE res \in {F(x) : x \in {v}} : TRUE

Thrown(m) == [thrown |-> TRUE, m |-> m]

(***************************************************************************)
(* Graph construction                                                       *)
(***************************************************************************)
RECURSIVE SubSeq2(_, _)
\* The elements of s whose index is in keep, in order.
SubSeq2(s, keep) ==
    IF s = <<>> THEN <<>>
    ELSE LET rest == SubSeq2(SubSeq(s, 1, Len(s) - 1), keep)
         IN  IF Len(s) \in keep THEN Append(rest, s[Len(s)]) ELSE rest

\* addTransition / addEpsilonTransition give ids 1, 2, ... in insertion order.
WithIds(s) ==
    [i \in 1..Len(s) |->
        [id |-> i, from |-> s[i].from, to |-> s[i].to, type |-> s[i].type,
         rule |-> s[i].rule, priority |-> s[i].priority]]

Priorities(s) == {s[i].priority : i \in 1..Len(s)}

MaxOf(S) == CHOOSE x \in S : \A y \in S : y <= x

RECURSIVE SortByPriority(_)
\* Priority descending; equal priorities keep their relative order.
SortByPriority(s) ==
    IF s = <<>> THEN <<>>
    ELSE LET top == MaxOf(Priorities(s))
         IN  SelectSeq(s, LAMBDA t : t.priority = top)
             \o SortByPriority(SelectSeq(s, LAMBDA t : t.priority # top))

rebuildTransitionMap(ts) ==
    [s \in States |-> SortByPriority(SelectSeq(ts, LAMBDA t : t.from = s))]

getTransitionsFrom(state) ==
    IF state \in DOMAIN transition_map_ THEN transition_map_[state] ELSE <<>>

\* (mutation) a state is accepting when its type says so.
AcceptByType(state) == state \in DOMAIN states_ /\ states_[state] = "ACCEPT"

isAcceptState(state) == state \in accept_states_

isInAcceptState(m) == isAcceptState(m.current_state_)

Matches(t, ch) == t.type = "ABNF_RULE" /\ ch \in t.rule

(***************************************************************************)
(* Capture groups                                                           *)
(***************************************************************************)
IsActive(m, name) ==
    \E i \in 1..Len(m.active_captures_) : m.active_captures_[i].name = name

\* (mutation) a capture is begun whether or not its name is active.
BeginUnchecked(m, name) ==
    Ok([m EXCEPT !.active_captures_ =
           Append(@, [name |-> name,
                      start_position |-> m.current_input_position_,
                      buffer |-> <<>>])])

beginCapture(m, name) ==
    IF IsActive(m, name)
    THEN Thrown(m)
    ELSE Ok([m EXCEPT !.active_captures_ =
                Append(@, [name |-> name,
                           start_position |-> m.current_input_position_,
                           buffer |-> <<>>])])

endCapture(m, name) ==
    IF ~IsActive(m, name)
    THEN Thrown(m)
    ELSE LET i == CHOOSE k \in 1..Len(m.active_captures_) :
                     /\ m.active_captures_[k].name = name
                     /\ \A j \in 1..(k - 1) : m.active_captures_[j].name # name
             it == m.active_captures_[i]
             capture == [name |-> it.name,
                         start_position |-> it.start_position,
                         end_position |-> m.current_input_position_,
                         value |-> it.buffer]
         IN  Ok([m EXCEPT !.captures_ = Append(@, capture),
                          !.active_captures_ =
                              SubSeq(@, 1, i - 1) \o SubSeq(@, i + 1, Len(@))])

recordCharInCaptures(m, ch) ==
    [m EXCEPT !.active_captures_ =
        [i \in 1..Len(@) |-> [@[i] EXCEPT !.buffer = Append(@, ch)]]]

clearCaptures(m) == [m EXCEPT !.captures_ = <<>>, !.active_captures_ = <<>>]

updateCapturePosition(m, pos) == [m EXCEPT !.current_input_position_ = pos]

\* StateContext(state, position, ch, user_data_), with the hook it is passed to.
StateContext(hook, state, position, ch) ==
    [hook |-> hook, state |-> state, position |-> position, ch |-> ch]

\* TransitionContext(old_state, new_state, ch, position, trans, user_data_)
TransitionContext(old_state, new_state, ch, position, trans) ==
    [hook |-> "transition", from |-> old_state, to |-> new_state, ch |-> ch,
     position |-> position, id |-> trans.id]

\* A callback; "none" is an unset std::function, "log" appends its context to
\* the client's log.
FireCallback(m, cb, ctx) ==
    CASE cb = "begin" -> beginCapture(m, CaptureName)
      [] cb = "end"   -> endCapture(m, CaptureName)
      [] cb = "log"   -> Ok([m EXCEPT !.user_data_ = Append(@, ctx)])
      [] OTHER        -> Ok(m)

(***************************************************************************)
(* Greedy step and epsilon closure                                          *)
(***************************************************************************)
TraceEntry(m, old, ch, t) ==
    [step |-> Len(m.trace_), from_state |-> old, to_state |-> m.current_state_,
     input_char |-> ch, transition_id |-> t.id]

\* (mutation) the scan keeps the last admitting transition instead of stopping
\* at the first.
LastMatch(transitions, ch) ==
    IF \E i \in 1..Len(transitions) : Matches(transitions[i], ch)
    THEN CHOOSE i \in 1..Len(transitions) :
            /\ Matches(transitions[i], ch)
            /\ \A j \in (i + 1)..Len(transitions) : ~Matches(transitions[j], ch)
    ELSE 0

\* Index of the first CLASS transition of the list that admits ch, 0 if none.
FirstMatch(transitions, ch) ==
    IF \E i \in 1..Len(transitions) : Matches(transitions[i], ch)
    THEN CHOOSE i \in 1..Len(transitions) :
            /\ Matches(transitions[i], ch)
            /\ \A j \in 1..(i - 1) : ~Matches(transitions[j], ch)
    ELSE 0

\* Callbacks, state change, metrics and trace of taking CLASS transition t.
\* (mutation) the exit and entry callbacks fire on self-loops too.
TakeTransitionFiringAll(m, t, ch, position) ==
    LET old_state == m.current_state_
        new_state == t.to
        state_changed == old_state # new_state
        Counted(m2) == IF hasCollectMetrics
                       THEN [m2 EXCEPT !.metrics_.transitions_taken = @ + 1,
                                       !.metrics_.states_visited =
                                           IF state_changed THEN @ + 1 ELSE @]
                       ELSE m2
        Traced(m3) == IF hasTraceTransitions
                      THEN [m3 EXCEPT !.trace_ = Append(@, TraceEntry(m3, old_state, ch, t))]
                      ELSE m3
    IN  Local(FireCallback(m, on_exit[old_state],
                           StateContext("exit", old_state, position, ch)),
              LAMBDA r1 :
        IF r1.thrown THEN [ok |-> FALSE, thrown |-> TRUE, m |-> r1.m]
        ELSE
        Local(FireCallback(r1.m, on_transition[t.id],
                           TransitionContext(old_state, new_state, ch, position, t)),
              LAMBDA rt :
        IF rt.thrown THEN [ok |-> FALSE, thrown |-> TRUE, m |-> rt.m]
        ELSE
        Local(FireCallback([rt.m EXCEPT !.current_state_ = new_state],
                           on_entry[new_state],
                           StateContext("entry", new_state, position, ch)),
              LAMBDA r2 :
        IF r2.thrown THEN [ok |-> FALSE, thrown |-> TRUE, m |-> r2.m]
        ELSE Local(Counted(r2.m), LAMBDA m3 :
                   [ok |-> TRUE, thrown |-> FALSE, m |-> Traced(m3)]))))

TakeTransition(m, t, ch, position) ==
    LET old_state == m.current_state_
        new_state == t.to
        state_changed == old_state # new_state
        Counted(m2) == IF hasCollectMetrics
                       THEN [m2 EXCEPT !.metrics_.transitions_taken = @ + 1,
                                       !.metrics_.states_visited =
                                           IF state_changed THEN @ + 1 ELSE @]
                       ELSE m2
        Traced(m3) == IF hasTraceTransitions
                      THEN [m3 EXCEPT !.trace_ = Append(@, TraceEntry(m3, old_state, ch, t))]
                      ELSE m3
    IN  Local(IF state_changed
              THEN FireCallback(m, on_exit[old_state],
                                StateContext("exit", old_state, position, ch))
              ELSE Ok(m),
              LAMBDA r1 :
        IF r1.thrown THEN [ok |-> FALSE, thrown |-> TRUE, m |-> r1.m]
        ELSE
        Local(FireCallback(r1.m, on_transition[t.id],
                           TransitionContext(old_state, new_state, ch, position, t)),
              LAMBDA rt :
        IF rt.thrown THEN [ok |-> FALSE, thrown |-> TRUE, m |-> rt.m]
        ELSE
        Local(IF state_changed
              THEN FireCallback([rt.m EXCEPT !.current_state_ = new_state],
                                on_entry[new_state],
                                StateContext("entry", new_state, position, ch))
              ELSE Ok([rt.m EXCEPT !.current_state_ = new_state]),
              LAMBDA r2 :
        IF r2.thrown THEN [ok |-> FALSE, thrown |-> TRUE, m |-> r2.m]
        ELSE Local(Counted(r2.m), LAMBDA m3 :
                   [ok |-> TRUE, thrown |-> FALSE, m |-> Traced(m3)]))))

\* (mutation) the error is recorded after the position has been advanced.
NoMatchErrorAdvanced(m, ch, position) ==
    [m EXCEPT !.last_error_ =
                  ValidationError("NO_MATCHING_TRANSITION", position + 1, ch,
                                  m.current_state_),
              !.current_input_position_ = position + 1]

NoMatchError(m, ch, position) ==
    [m EXCEPT !.last_error_ =
        ValidationError("NO_MATCHING_TRANSITION", position, ch, m.current_state_)]

processCharImpl(m, ch, position) ==
    LET transitions == getTransitionsFrom(m.current_state_)
        best_match == FirstMatch(transitions, ch)
    IN  IF best_match = 0
        THEN [ok |-> FALSE, thrown |-> FALSE, m |-> NoMatchError(m, ch, position)]
        ELSE TakeTransition(m, transitions[best_match], ch, position)

\* Index of the first EPSILON transition of the list whose target is unvisited.
FirstEpsilon(transitions, visited) ==
    IF \E i \in 1..Len(transitions) :
          transitions[i].type = "EPSILON" /\ transitions[i].to \notin visited
    THEN CHOOSE i \in 1..Len(transitions) :
            /\ transitions[i].type = "EPSILON" /\ transitions[i].to \notin visited
            /\ \A j \in 1..(i - 1) :
                  ~(transitions[j].type = "EPSILON" /\ transitions[j].to \notin visited)
    ELSE 0

RECURSIVE EpsilonLoop(_, _, _)
EpsilonLoop(m, epsilon_visited, position) ==
    LET transitions == getTransitionsFrom(m.current_state_)
        k == FirstEpsilon(transitions, epsilon_visited)
    IN  IF k = 0 THEN Ok(m)
        ELSE LET trans == transitions[k]
                 old_state == m.current_state_
                 new_state == trans.to
                 Counted(m2) == IF hasCollectMetrics
                                THEN [m2 EXCEPT !.metrics_.epsilon_transitions = @ + 1]
                                ELSE m2
                 Traced(m3) == IF hasTraceTransitions
                               THEN [m3 EXCEPT !.trace_ =
                                        Append(@, TraceEntry(m3, old_state, NUL, trans))]
                               ELSE m3
             IN  Local(FireCallback(m, on_exit[old_state],
                                    StateContext("exit", old_state, position, NUL)),
                       LAMBDA r1 :
                 IF r1.thrown THEN Thrown(r1.m)
                 ELSE
                 Local(FireCallback(r1.m, on_transition[trans.id],
                                    TransitionContext(old_state, new_state, NUL,
                                                      position, trans)),
                       LAMBDA rt :
                 IF rt.thrown THEN Thrown(rt.m)
                 ELSE
                 Local(FireCallback([rt.m EXCEPT !.current_state_ = new_state],
                                    on_entry[new_state],
                                    StateContext("entry", new_state, position, NUL)),
                       LAMBDA r2 :
                 IF r2.thrown THEN Thrown(r2.m)
                 ELSE Local(Counted(r2.m), LAMBDA m3 :
                      Local(Traced(m3), LAMBDA m4 :
                            EpsilonLoop(m4, epsilon_visited \cup {new_state},
                                        position))))))

\* (mutation) the closure is left out.
NoClosure(m, position) == Ok(m)

\* (mutation) the closure takes the last EPSILON edge of the list whose
\* target is unvisited.
RECURSIVE LastEpsilonLoop(_, _, _)
LastEpsilonLoop(m, epsilon_visited, position) ==
    LET transitions == getTransitionsFrom(m.current_state_)
        open == {i \in 1..Len(transitions) :
                    transitions[i].type = "EPSILON" /\ transitions[i].to \notin epsilon_visited}
    IN  IF open = {} THEN Ok(m)
        ELSE LET trans == transitions[MaxOf(open)]
                 moved == [m EXCEPT !.current_state_ = trans.to]
             IN  LastEpsilonLoop(
                     [moved EXCEPT !.trace_ =
                         IF hasTraceTransitions
                         THEN Append(@, TraceEntry(moved, m.current_state_, NUL, trans))
                         ELSE @],
                     epsilon_visited \cup {trans.to}, position)

ClosureTakingLast(m, position) == LastEpsilonLoop(m, {m.current_state_}, position)

\* (mutation) the state the closure starts in is not put into the visited set.
ClosureForgettingStart(m, position) == EpsilonLoop(m, {}, position)

processEpsilonTransitions(m, position) == EpsilonLoop(m, {m.current_state_}, position)

(***************************************************************************)
(* reset, validate                                                          *)
(***************************************************************************)
\* (mutation) reset keeps the error of the run before.
ResetKeepingError(m) ==
    [m EXCEPT !.current_state_ = m.start_state_,
              !.trace_ = IF hasTraceTransitions \/ hasTraceStateChanges THEN <<>> ELSE @,
              !.metrics_ = IF hasCollectMetrics THEN ZeroMetrics ELSE @,
              !.current_input_position_ = 0,
              !.current_input_ = <<>>,
              !.stream_state_ = "READY",
              !.streaming_mode_ = FALSE,
              !.choice_stack_ = <<>>,
              !.backtracking_stats_ = ZeroStats]

reset(m) ==
    [m EXCEPT !.current_state_ = m.start_state_,
              !.last_error_ = NoError,
              !.trace_ = IF hasTraceTransitions \/ hasTraceStateChanges THEN <<>> ELSE @,
              !.metrics_ = IF hasCollectMetrics THEN ZeroMetrics ELSE @,
              !.current_input_position_ = 0,
              !.current_input_ = <<>>,
              !.stream_state_ = "READY",
              !.streaming_mode_ = FALSE,
              !.choice_stack_ = <<>>,
              !.backtracking_stats_ = ZeroStats]

Result(ret, m) == [ret |-> ret, m |-> m]

\* (mutation) a consumed byte is counted whether or not metrics are collected,
\* and twice when they are.
CountCharacterTwice(m) == [m EXCEPT !.metrics_.characters_processed = @ + 2]

\* if (hasDebugFlag(COLLECT_METRICS)) metrics_.characters_processed++
CountCharacter(m) ==
    IF hasCollectMetrics THEN [m EXCEPT !.metrics_.characters_processed = @ + 1] ELSE m

\* The entry of validate and validateWithBacktracking: reset, clearCaptures,
\* current_input_ = input, current_input_position_ = 0.
Begin(m, input) ==
    [clearCaptures(reset(m)) EXCEPT !.current_input_ = input,
                                    !.current_input_position_ = 0]

NoStartState(m, position, ch) ==
    [m EXCEPT !.last_error_ =
        ValidationError("NO_START_STATE", position, ch, m.current_state_)]

NotInAcceptState(m, position) ==
    [m EXCEPT !.last_error_ =
        ValidationError("NOT_IN_ACCEPT_STATE", position, NUL, m.current_state_)]

RECURSIVE ValidateLoop(_, _, _)
\* The per-byte loop of validate; i is the 0-based index of the next byte.
ValidateLoop(m, input, i) ==
    IF i >= Len(input) THEN Result("done", m)
    ELSE LET ch == input[i + 1]
         IN  Local(processCharImpl(updateCapturePosition(m, i), ch, i), LAMBDA r :
             IF r.thrown THEN Result("THROW", r.m)
             ELSE IF ~r.ok THEN Result("FALSE", r.m)
             ELSE Local(recordCharInCaptures(CountCharacter(r.m), ch), LAMBDA m2 :
                        ValidateLoop(m2, input, i + 1)))

\* (mutation) the closure after the last byte is left out.
NoFinalClosure(m, size) == Ok(updateCapturePosition(m, size))

\* updateCapturePosition(input.size()); processEpsilonTransitions(input.size())
FinalClosure(m, size) == processEpsilonTransitions(updateCapturePosition(m, size), size)

validate(m, input) ==
    Local(Begin(m, input), LAMBDA m1 :
    IF m1.start_state_ = InvalidId
    THEN Result("FALSE", NoStartState(m1, 0, NUL))
    ELSE Local(ValidateLoop(m1, input, 0), LAMBDA l :
         IF l.ret # "done" THEN l
         ELSE Local(FinalClosure(l.m, Len(input)), LAMBDA e :
              IF e.thrown THEN Result("THROW", e.m)
              ELSE IF ~isInAcceptState(e.m)
              THEN Result("FALSE", NotInAcceptState(e.m, Len(input)))
              ELSE Result("TRUE", e.m))))

(***************************************************************************)
(* Streaming                                                                *)
(***************************************************************************)
\* (mutation) the accept test is left out: a successful feed always asks for more.
AlwaysWaiting(m) == "WAITING_FOR_INPUT"

\* if (isInAcceptState()) COMPLETE else WAITING_FOR_INPUT
StreamStateAfter(m) == IF isInAcceptState(m) THEN "COMPLETE" ELSE "WAITING_FOR_INPUT"

feed(m, ch) ==
    LET first == ~m.streaming_mode_
    IN  Local([m EXCEPT !.streaming_mode_ = TRUE,
                        !.stream_state_ = IF first THEN "PROCESSING" ELSE @,
                        !.current_input_ = Append(@, ch)], LAMBDA m1 :
        IF first /\ m1.start_state_ = InvalidId
        THEN Result("ERROR", [NoStartState(m1, m1.current_input_position_, ch)
                                 EXCEPT !.stream_state_ = "ERROR"])
        ELSE Local(processCharImpl(m1, ch, m1.current_input_position_), LAMBDA r :
             IF r.thrown THEN Result("THROW", r.m)
             ELSE IF ~r.ok THEN Result("ERROR", [r.m EXCEPT !.stream_state_ = "ERROR"])
             ELSE Local([recordCharInCaptures(CountCharacter(r.m), ch) EXCEPT
                            !.current_input_position_ = @ + 1], LAMBDA m3 :
                  Local(StreamStateAfter(m3), LAMBDA st :
                        Result(st, [m3 EXCEPT !.stream_state_ = st])))))

RECURSIVE feedChunk(_, _)
feedChunk(m, chunk) ==
    IF chunk = <<>> THEN Result(m.stream_state_, m)
    ELSE Local(feed(m, Head(chunk)), LAMBDA r :
               IF r.ret \in {"ERROR", "THROW"} THEN r
               ELSE feedChunk(r.m, Tail(chunk)))

endOfStream(m) ==
    IF ~m.streaming_mode_
    THEN Result("ERROR",
                [m EXCEPT !.last_error_ =
                              ValidationError("UNEXPECTED_END_OF_INPUT", 0, NUL,
                                              m.current_state_),
                          !.stream_state_ = "ERROR"])
    ELSE Local(processEpsilonTransitions(m, m.current_input_position_), LAMBDA e :
               IF e.thrown THEN Result("THROW", e.m)
               ELSE IF ~isInAcceptState(e.m)
               THEN Result("ERROR",
                           [NotInAcceptState(e.m, e.m.current_input_position_)
                               EXCEPT !.stream_state_ = "ERROR"])
               ELSE Result("COMPLETE", [e.m EXCEPT !.stream_state_ = "COMPLETE"]))

\* (mutation) reset_stream() does what reset() does.
ResetAll(m) == reset(m)

resetStream(m) == [m EXCEPT !.stream_state_ = "READY", !.streaming_mode_ = FALSE]

(***************************************************************************)
(* Backtracking                                                             *)
(***************************************************************************)
\* (mutation) the scan keeps only the last admitting transition.
OnlyLastValid(m, ch) ==
    LET all == SelectSeq(getTransitionsFrom(m.current_state_), LAMBDA t : Matches(t, ch))
    IN  IF all = <<>> THEN <<>> ELSE <<all[Len(all)]>>

\* (mutation) every CLASS transition of the state is valid, whatever the byte.
AnyClassValid(m, ch) ==
    SelectSeq(getTransitionsFrom(m.current_state_), LAMBDA t : t.type = "ABNF_RULE")

getValidTransitions(m, ch) ==
    SelectSeq(getTransitionsFrom(m.current_state_), LAMBDA t : Matches(t, ch))

isChoicePoint(state) == state \in is_choice_point

\* (mutation) a state marked as a choice point saves one whatever the number
\* of valid transitions.
ChoicePointWhenMarked(m, valid_transitions) ==
    isChoicePoint(m.current_state_) \/ Len(valid_transitions) > 1

shouldCreateChoicePoint(m, valid_transitions) ==
    IF Len(valid_transitions) <= 1 THEN FALSE
    ELSE IF isChoicePoint(m.current_state_) THEN TRUE
    ELSE Len(valid_transitions) > 1

ChoicePoint(m, alternatives, position) ==
    [state |-> m.current_state_,
     position |-> position,
     remaining |-> alternatives,
     captures_snapshot |-> m.captures_,
     active_captures_snapshot |-> m.active_captures_,
     input_position_snapshot |-> m.current_input_position_]

\* (mutation) the depth limit is not looked at.
SaveUnlimited(m, alternatives, position) ==
    LET stack == Append(m.choice_stack_, ChoicePoint(m, alternatives, position))
    IN  [m EXCEPT !.choice_stack_ = stack,
                  !.backtracking_stats_.choice_points_created = @ + 1,
                  !.backtracking_stats_.max_stack_depth =
                      IF Len(stack) > @ THEN Len(stack) ELSE @]

saveChoicePoint(m, alternatives, position) ==
    IF max_backtrack_depth_ > 0 /\ Len(m.choice_stack_) >= max_backtrack_depth_
    THEN m
    ELSE LET stack == Append(m.choice_stack_, ChoicePoint(m, alternatives, position))
         IN  [m EXCEPT !.choice_stack_ = stack,
                       !.backtracking_stats_.choice_points_created = @ + 1,
                       !.backtracking_stats_.max_stack_depth =
                           IF Len(stack) > @ THEN Len(stack) ELSE @]

restoreFromChoicePoint(m, cp) ==
    [m EXCEPT !.current_state_ = cp.state,
              !.captures_ = cp.captures_snapshot,
              !.active_captures_ = cp.active_captures_snapshot,
              !.current_input_position_ = cp.input_position_snapshot]

RECURSIVE backtrack(_)
\* Pops exhausted choice points; on success the top one has alternatives left
\* and the snapshot is restored.
backtrack(m) ==
    IF m.choice_stack_ = <<>> THEN [found |-> FALSE, m |-> m]
    ELSE LET cp == m.choice_stack_[Len(m.choice_stack_)]
         IN  IF cp.remaining # <<>>
             THEN [found |-> TRUE,
                   m |-> [restoreFromChoicePoint(m, cp) EXCEPT
                             !.backtracking_stats_.backtracks_performed = @ + 1]]
             ELSE backtrack([m EXCEPT !.choice_stack_ = SubSeq(@, 1, Len(@) - 1)])

\* (mutation) the alternative that is taken stays in the choice point.
KeepFirstRemaining(m) == m

\* cp.remaining.erase(cp.remaining.begin()) on the top choice point.
EraseFirstRemaining(m) ==
    [m EXCEPT !.choice_stack_[Len(m.choice_stack_)].remaining = Tail(@)]

Top(m) == m.choice_stack_[Len(m.choice_stack_)]

\* The history of a run: one entry for every byte taken with a matching
\* transition and one for every successful backtrack().
Logged(m, entry) == [m EXCEPT !.history = Append(@, entry)]

\* before is the FSM when the byte at position was looked up, after is the FSM
\* once valid_transitions[0] has been taken.
StepEntry(before, after, valid_transitions, position) ==
    [kind |-> "step",
     state |-> before.current_state_,
     position |-> position,
     valid |-> valid_transitions,
     flagged |-> isChoicePoint(before.current_state_),
     captures |-> before.captures_,
     active |-> before.active_captures_,
     input_position |-> before.current_input_position_,
     stack_before |-> before.choice_stack_,
     stack |-> after.choice_stack_,
     next |-> after.current_state_]

\* m is the FSM when backtrack() has returned true, cp the choice point it
\* stopped at.
RestoreEntry(m, cp) ==
    [kind |-> "restore",
     cp |-> cp,
     depth |-> Len(m.choice_stack_),
     captures |-> m.captures_,
     active |-> m.active_captures_,
     input_position |-> m.current_input_position_]

RECURSIVE BacktrackingLoop(_, _, _)
\* The while (position < input.size()) loop of validateWithBacktracking.
BacktrackingLoop(m0, input, position) ==
    IF position >= Len(input) THEN Result("done", m0)
    ELSE
    LET ch == input[position + 1]
    IN  Local(updateCapturePosition(m0, position), LAMBDA m :
        Local(getValidTransitions(m, ch), LAMBDA valid_transitions :
        IF valid_transitions = <<>>
        THEN Local(backtrack(m), LAMBDA b :
             IF ~b.found
             THEN Result("FALSE",
                         [b.m EXCEPT !.last_error_ =
                             ValidationError("NO_MATCHING_TRANSITION", position, ch,
                                             b.m.current_state_)])
             ELSE Local(Top(b.m), LAMBDA cp :
                  Local([EraseFirstRemaining(Logged(b.m, RestoreEntry(b.m, cp))) EXCEPT
                            !.current_state_ = cp.remaining[1].to,
                            !.backtracking_stats_.paths_explored = @ + 1],
                        LAMBDA m1 :
                  Local(CountCharacter(
                            [recordCharInCaptures(m1, ch) EXCEPT
                                !.current_input_position_ = cp.position + 1]),
                        LAMBDA m3 :
                        BacktrackingLoop(m3, input, cp.position + 1)))))
        ELSE Local(IF shouldCreateChoicePoint(m, valid_transitions)
                   THEN saveChoicePoint(m, Tail(valid_transitions), position)
                   ELSE m, LAMBDA m1 :
             Local(TakeTransition(
                       [m1 EXCEPT !.backtracking_stats_.paths_explored = @ + 1],
                       valid_transitions[1], ch, position), LAMBDA r :
             Local(Logged(r.m, StepEntry(m, r.m, valid_transitions, position)),
                   LAMBDA m2 :
             IF r.thrown THEN Result("THROW", m2)
             ELSE Local(CountCharacter(
                            [recordCharInCaptures(m2, ch) EXCEPT
                                !.current_input_position_ = @ + 1]), LAMBDA m4 :
                        BacktrackingLoop(m4, input, position + 1)))))))

RECURSIVE validateWithBacktracking(_, _)
RECURSIVE ResumeLoop(_, _)
\* The while (backtrack()) loop that runs when the input is consumed outside
\* an accept state.
ResumeLoop(m, input) ==
    Local(backtrack(m), LAMBDA b :
    IF ~b.found
    THEN Result("FALSE", NotInAcceptState(b.m, Len(input)))
    ELSE
    Local(Top(b.m), LAMBDA cp :
    Local([EraseFirstRemaining(Logged(b.m, RestoreEntry(b.m, cp))) EXCEPT
              !.backtracking_stats_.paths_explored = @ + 1,
              !.current_state_ = cp.remaining[1].to], LAMBDA m1 :
    LET resume_pos == cp.position + 1
    IN  IF resume_pos >= Len(input)
        THEN Local(processEpsilonTransitions(m1, Len(input)), LAMBDA e :
                   IF e.thrown THEN Result("THROW", e.m)
                   ELSE IF isInAcceptState(e.m) THEN Result("TRUE", e.m)
                   ELSE ResumeLoop(e.m, input))
        ELSE LET remaining_input == SubSeq(input, resume_pos + 1, Len(input))
                 saved_start == m1.start_state_
             IN  Local(validateWithBacktracking(
                           [m1 EXCEPT !.start_state_ = m1.current_state_],
                           remaining_input), LAMBDA r :
                 IF r.ret = "THROW" THEN r
                 ELSE Local([r.m EXCEPT !.start_state_ = saved_start], LAMBDA m2 :
                      IF r.ret = "TRUE" THEN Result("TRUE", m2)
                      ELSE ResumeLoop(m2, input))))))

validateWithBacktracking(m, input) ==
    Local(Begin(m, input), LAMBDA m1 :
    IF m1.start_state_ = InvalidId
    THEN Result("FALSE", NoStartState(m1, 0, NUL))
    ELSE Local(BacktrackingLoop(m1, input, 0), LAMBDA l :
         IF l.ret # "done" THEN l
         ELSE Local(FinalClosure(l.m, Len(input)), LAMBDA e :
              IF e.thrown THEN Result("THROW", e.m)
              ELSE IF isInAcceptState(e.m) THEN Result("TRUE", e.m)
              ELSE ResumeLoop(e.m, input))))

(***************************************************************************)
(* The FSM as a state machine: construction, then calls by the client       *)
(***************************************************************************)
\* State::type once setStartState(start) and addAcceptState of accepts have run.
StateTypeOf(s, start, accepts) ==
    IF s = start THEN "START" ELSE IF s \in accepts THEN "ACCEPT" ELSE "NORMAL"

Init ==
    /\ \E keep \in SUBSET (1..Len(Pool)) : transitions_ = WithIds(SubSeq2(Pool, keep))
    /\ transition_map_ = rebuildTransitionMap(transitions_)
    /\ transition_map_dirty_ = FALSE
    /\ accept_states_ \in AcceptSets
    /\ states_ = [s \in States |-> StateTypeOf(s, 1, accept_states_)]
    /\ next_state_id_ = Cardinality(States) + 1
    /\ next_transition_id_ = Len(transitions_) + 1
    /\ \E cb \in CallbackConfigs :
          /\ on_entry = cb.entry /\ on_exit = cb.exit
          /\ on_transition = [id \in 1..Len(transitions_) |-> cb.transition]
    /\ debug_flags \in FlagSets
    /\ max_backtrack_depth_ = 0
    /\ is_choice_point = {}
    /\ start_state_ = 1
    /\ current_state_ = 1
    /\ last_error_ = NoError
    /\ trace_ = <<>>
    /\ metrics_ = ZeroMetrics
    /\ captures_ = <<>>
    /\ active_captures_ = <<>>
    /\ current_input_position_ = 0
    /\ current_input_ = <<>>
    /\ stream_state_ = "READY"
    /\ streaming_mode_ = FALSE
    /\ choice_stack_ = <<>>
    /\ backtracking_stats_ = ZeroStats
    /\ client_input \in Inputs
    /\ call = [op |-> "construct", ret |-> "none"]
    /\ history = <<>>
    /\ user_data_ = <<>>
    /\ abnf = <<>>

\* Keeps the lists that a client can grow without limit within the bounds.
WithinBounds ==
    /\ Len(captures_) < MaxCaptures
    /\ Len(trace_) <= MaxLen + MaxCaptures
    /\ \A i \in 1..Len(active_captures_) : Len(active_captures_[i].buffer) < MaxLen

\* The bytes of the input the client has not fed yet.
Unfed == SubSeq(client_input, Len(current_input_) + 1, Len(client_input))

Validate ==
    /\ \E r \in {validate(Self, client_input)} :
          Install(r.m) /\ call' = [op |-> "validate", ret |-> r.ret]
    /\ UNCHANGED <<graphVars, client_input, abnf>>

ValidateWithBacktracking ==
    /\ \E r \in {validateWithBacktracking(Self, client_input)} :
          Install(r.m) /\ call' = [op |-> "validateWithBacktracking", ret |-> r.ret]
    /\ UNCHANGED <<graphVars, client_input, abnf>>

Feed ==
    /\ Unfed # <<>>
    /\ WithinBounds
    /\ \E r \in {feed(Self, Head(Unfed))} :
          Install(r.m) /\ call' = [op |-> "feed", ret |-> r.ret]
    /\ UNCHANGED <<graphVars, client_input, abnf>>

FeedChunk ==
    /\ Len(Unfed) > 1
    /\ WithinBounds
    /\ \E r \in {feedChunk(Self, Unfed)} :
          Install(r.m) /\ call' = [op |-> "feedChunk", ret |-> r.ret]
    /\ UNCHANGED <<graphVars, client_input, abnf>>

EndOfStream ==
    /\ WithinBounds
    /\ \E r \in {endOfStream(Self)} :
          Install(r.m) /\ call' = [op |-> "endOfStream", ret |-> r.ret]
    /\ UNCHANGED <<graphVars, client_input, abnf>>

Reset ==
    /\ Install(reset(Self))
    /\ call' = [op |-> "reset", ret |-> "none"]
    /\ UNCHANGED <<graphVars, client_input, abnf>>

ResetStream ==
    /\ Install(resetStream(Self))
    /\ call' = [op |-> "resetStream", ret |-> "none"]
    /\ UNCHANGED <<graphVars, client_input, abnf>>

Next ==
    \/ Validate
    \/ ValidateWithBacktracking
    \/ Feed
    \/ FeedChunk
    \/ EndOfStream
    \/ Reset
    \/ ResetStream

Spec == Init /\ [][Next]_vars

(***************************************************************************)
(* Vocabulary of the properties                                             *)
(***************************************************************************)
\* The transitions of the graph, as a set.
TransitionSet == {transitions_[i] : i \in 1..Len(transitions_)}

\* CLASS transitions out of state s whose predicate admits byte ch.
Admitting(s, ch) ==
    {t \in TransitionSet : t.from = s /\ t.type = "ABNF_RULE" /\ ch \in t.rule}

\* The trace entries that consumed a byte / that followed an epsilon edge.
ByteEntries == SelectSeq(trace_, LAMBDA e : e.input_char # NUL)

EpsilonEntries == SelectSeq(trace_, LAMBDA e : e.input_char = NUL)

\* The state the run was in once its last consumed byte had been taken.
StateAfterBytes ==
    IF ByteEntries = <<>> THEN start_state_ ELSE ByteEntries[Len(ByteEntries)].to_state

\* The states the epsilon steps of the trace passed through.
ClosurePath == {StateAfterBytes} \cup {EpsilonEntries[k].to_state : k \in 1..Len(EpsilonEntries)}

IsPrefix(p, s) == Len(p) <= Len(s) /\ p = SubSeq(s, 1, Len(p))

AfterValidate == call.op = "validate"

(***************************************************************************)
(* C1: in greedy validate every consumed byte b is taken, from the state s  *)
(* the run is in, along a CLASS transition out of s that admits b and that  *)
(* no other admitting CLASS transition out of s outranks in priority; an    *)
(* EPSILON transition never consumes a byte, wherever it sits in the list.  *)
(***************************************************************************)
C1_GreedyTakesHighestPriority ==
    AfterValidate =>
        /\ IsPrefix([k \in 1..Len(ByteEntries) |-> ByteEntries[k].input_char], client_input)
        /\ call.ret = "TRUE" => Len(ByteEntries) = Len(client_input)
        /\ \A k \in 1..Len(ByteEntries) :
              LET e == ByteEntries[k]
                  t == transitions_[e.transition_id]
              IN  /\ e.from_state = (IF k = 1 THEN start_state_ ELSE ByteEntries[k - 1].to_state)
                  /\ t \in Admitting(e.from_state, e.input_char)
                  /\ e.to_state = t.to
                  /\ \A u \in Admitting(e.from_state, e.input_char) : u.priority <= t.priority

\* A validate consumed a byte where a lower-priority CLASS transition also
\* admitted it and an EPSILON transition preceded the taken one in the list.
C1_Witness ==
    /\ AfterValidate
    /\ \E k \in 1..Len(ByteEntries) :
          \E u \in Admitting(ByteEntries[k].from_state, ByteEntries[k].input_char) :
              u.priority < transitions_[ByteEntries[k].transition_id].priority
    /\ \E k \in 1..Len(ByteEntries) :
          LET out == getTransitionsFrom(ByteEntries[k].from_state)
          IN  out # <<>> /\ out[1].type = "EPSILON"

(***************************************************************************)
(* C2: validate returns true exactly when every byte of the input was       *)
(* consumed and the state reached by the final epsilon closure is an accept *)
(* state; with every byte consumed and that state not accepting it returns  *)
(* false with NOT_IN_ACCEPT_STATE at position |x|.                          *)
(***************************************************************************)
AllBytesConsumed == Len(ByteEntries) = Len(client_input)

\* The epsilon steps of the trace form a closure from the state the last byte
\* led to: each follows an EPSILON edge, never re-enters a state, and stops
\* only where every EPSILON edge leads back into the path.
FinalClosureRan ==
    /\ \A k \in 1..Len(EpsilonEntries) :
          LET e == EpsilonEntries[k]
              t == transitions_[e.transition_id]
          IN  /\ t.type = "EPSILON" /\ t.from = e.from_state /\ t.to = e.to_state
              /\ e.from_state = (IF k = 1 THEN StateAfterBytes
                                 ELSE EpsilonEntries[k - 1].to_state)
    /\ current_state_ = (IF EpsilonEntries = <<>> THEN StateAfterBytes
                         ELSE EpsilonEntries[Len(EpsilonEntries)].to_state)
    /\ \A t \in TransitionSet :
          (t.type = "EPSILON" /\ t.from = current_state_) => t.to \in ClosurePath

C2_ValidateOutcome ==
    AfterValidate =>
        /\ call.ret = "TRUE" <=> (AllBytesConsumed /\ isAcceptState(current_state_))
        /\ AllBytesConsumed => FinalClosureRan
        /\ (AllBytesConsumed /\ ~isAcceptState(current_state_)) =>
              /\ call.ret = "FALSE"
              /\ last_error_ = ValidationError("NOT_IN_ACCEPT_STATE", Len(client_input),
                                               NUL, current_state_)

\* A validate accepted only thanks to the final closure.
C2_WitnessAccept ==
    /\ AfterValidate /\ call.ret = "TRUE"
    /\ client_input # <<>>
    /\ EpsilonEntries # <<>>
    /\ ~isAcceptState(StateAfterBytes)

(***************************************************************************)
(* Runs of a client, used to state the properties that compare runs         *)
(***************************************************************************)
Fresh == call.op = "construct"

RECURSIVE FeedEach(_, _)
\* feed(x[0]), ..., feed(x[n-1]), whatever each call returns; a callback's
\* exception ends the run.
FeedEach(m, x) ==
    IF x = <<>> THEN Result("done", m)
    ELSE Local(feed(m, Head(x)), LAMBDA r :
               IF r.ret = "THROW" THEN r ELSE FeedEach(r.m, Tail(x)))

\* The feed sequence of x followed by end_of_stream().
StreamRun(m, x) ==
    Local(FeedEach(m, x), LAMBDA f :
          IF f.ret = "THROW" THEN f ELSE endOfStream(f.m))

(***************************************************************************)
(* C3: on a fresh FSM, validate(x) and the feed sequence of x followed by   *)
(* end_of_stream() agree, for every input x including the empty one:        *)
(* validate returns true exactly when end_of_stream returns COMPLETE, and   *)
(* both leave the same list of closed captures.                             *)
(***************************************************************************)
C3_StreamingMatchesValidate ==
    Fresh =>
        \A v \in {validate(Self, client_input)} :
        \A s \in {StreamRun(Self, client_input)} :
            /\ v.ret = "TRUE" <=> s.ret = "COMPLETE"
            /\ v.m.captures_ = s.m.captures_

(***************************************************************************)
(* C4: once the stream state is ERROR, every later feed(b) and              *)
(* end_of_stream() returns ERROR and leaves the stream state ERROR; only    *)
(* reset() or reset_stream() leaves ERROR.                                  *)
(***************************************************************************)
C4_ErrorStep ==
    (stream_state_ = "ERROR" /\ call'.op \in {"feed", "endOfStream"}) =>
        (call'.ret = "ERROR" /\ stream_state_' = "ERROR")

C4_ErrorIsTerminal == [][C4_ErrorStep]_vars

(***************************************************************************)
(* C5: in every state of every FSM, if greedy validate(x) would return true *)
(* then validate_with_backtracking(x) returns true as well.                 *)
(***************************************************************************)
C5_GreedyImpliesBacktracking ==
    \A v \in {validate(Self, client_input)} :
        v.ret = "TRUE" => validateWithBacktracking(Self, client_input).ret = "TRUE"

\* validate_with_backtracking accepted an input that greedy validate accepts,
\* having passed a byte with several admitting transitions.
C5_Witness ==
    /\ call.op = "validateWithBacktracking" /\ call.ret = "TRUE"
    /\ backtracking_stats_.choice_points_created > 0
    /\ validate(Self, client_input).ret = "TRUE"

(***************************************************************************)
(* Paths of the graph                                                       *)
(***************************************************************************)
RECURSIVE ClosureEnd(_, _)
\* The state where the epsilon closure that starts in s stops.
ClosureEnd(s, visited) ==
    LET out == getTransitionsFrom(s)
        k == FirstEpsilon(out, visited)
    IN  IF k = 0 THEN s ELSE ClosureEnd(out[k].to, visited \cup {out[k].to})

RECURSIVE EndStates(_, _)
\* The states some sequence of CLASS transitions reaches from a state of S,
\* consuming all of x, each transition admitting its byte.
EndStates(S, x) ==
    IF x = <<>> THEN S
    ELSE EndStates({t.to : t \in UNION {Admitting(s, Head(x)) : s \in S}}, Tail(x))

ExistsAcceptingPath(x) ==
    \E s \in EndStates({start_state_}, x) : isAcceptState(ClosureEnd(s, {s}))

(***************************************************************************)
(* C6: with max_backtrack_depth = 0, validate_with_backtracking(x) returns  *)
(* true whenever some sequence of CLASS transitions from the start state    *)
(* consumes all of x and ends in a state whose epsilon closure stops in an  *)
(* accept state.                                                            *)
(***************************************************************************)
C6_BacktrackingComplete ==
    (/\ call.op = "validateWithBacktracking"
     /\ max_backtrack_depth_ = 0
     /\ ExistsAcceptingPath(client_input)) => call.ret = "TRUE"

(***************************************************************************)
(* C7: after reset() the current state is the start state, the closed and   *)
(* the active capture lists are empty, the choice stack is empty, the       *)
(* stream state is READY, the trace is empty, the metrics are zero and the  *)
(* last error is cleared.                                                   *)
(***************************************************************************)
C7_ResetClearsEverything ==
    call.op = "reset" =>
        /\ current_state_ = start_state_
        /\ captures_ = <<>>
        /\ active_captures_ = <<>>
        /\ choice_stack_ = <<>>
        /\ stream_state_ = "READY"
        /\ trace_ = <<>>
        /\ metrics_ = ZeroMetrics
        /\ last_error_ = NoError

(***************************************************************************)
(* C8: on a fresh FSM, a run (validate(x), validate_with_backtracking(x) or *)
(* the feed sequence of x followed by end_of_stream()), then reset(), then  *)
(* the same run again: the second run has the outcome, trace, metrics and   *)
(* captures of the first.                                                   *)
(***************************************************************************)
SameRun(r1, r2) ==
    /\ r2.ret = r1.ret
    /\ r2.m.trace_ = r1.m.trace_
    /\ r2.m.metrics_ = r1.m.metrics_
    /\ r2.m.captures_ = r1.m.captures_

C8_RerunAfterReset ==
    Fresh =>
        /\ \A r1 \in {validate(Self, client_input)} :
              SameRun(r1, validate(reset(r1.m), client_input))
        /\ \A r1 \in {validateWithBacktracking(Self, client_input)} :
              SameRun(r1, validateWithBacktracking(reset(r1.m), client_input))
        /\ \A r1 \in {StreamRun(Self, client_input)} :
              SameRun(r1, StreamRun(reset(r1.m), client_input))

(***************************************************************************)
(* C9: when the byte b at input position i has no admitting CLASS           *)
(* transition out of the current state, validate returns false and feed     *)
(* returns ERROR, the last error is NO_MATCHING_TRANSITION with position i, *)
(* byte b and the current state, and the current state, the input position  *)
(* and both capture lists are as they were before that byte.                *)
(***************************************************************************)
NoMatchAt(i, b, s) == ValidationError("NO_MATCHING_TRANSITION", i, b, s)

\* validate stopped before the end of the input: the bytes before the stop
\* are the ones the trace shows, and the run up to the stop is the run of
\* validate over those bytes alone.
C9_ValidateCase ==
    (AfterValidate /\ ~AllBytesConsumed) =>
        LET i == Len(ByteEntries)
            b == client_input[i + 1]
            prefix == SubSeq(client_input, 1, i)
        IN  /\ Admitting(current_state_, b) = {}
            /\ call.ret = "FALSE"
            /\ last_error_ = NoMatchAt(i, b, current_state_)
            /\ current_input_position_ = i
            /\ \A p \in {ValidateLoop(Begin(Self, prefix), prefix, 0).m} :
                  /\ current_state_ = p.current_state_
                  /\ captures_ = p.captures_
                  /\ active_captures_ = p.active_captures_

C9_FeedCase ==
    (call'.op = "feed" /\ Admitting(current_state_, Head(Unfed)) = {}) =>
        /\ call'.ret = "ERROR"
        /\ last_error_' = NoMatchAt(current_input_position_, Head(Unfed), current_state_)
        /\ current_state_' = current_state_
        /\ current_input_position_' = current_input_position_
        /\ captures_' = captures_
        /\ active_captures_' = active_captures_

C9_NoMatchingTransition ==
    []C9_ValidateCase /\ [][C9_FeedCase]_vars

\* A feed failed on a byte that is not the first one, with a capture open.
C9_Witness ==
    /\ call.op = "feed" /\ call.ret = "ERROR"
    /\ last_error_.type = "NO_MATCHING_TRANSITION"
    /\ last_error_.position > 0
    /\ active_captures_ # <<>>

(***************************************************************************)
(* C10: a feed(b) that returns and whose byte has an admitting CLASS        *)
(* transition returns COMPLETE if the state entered is an accept state and  *)
(* WAITING_FOR_INPUT otherwise, and advances the input position by one;     *)
(* feed(chunk) feeds the bytes in order, stops at the first byte whose feed *)
(* returns ERROR and leaves the bytes after it unconsumed.                  *)
(***************************************************************************)
C10_FeedCase ==
    (/\ call'.op = "feed"
     /\ Admitting(current_state_, Head(Unfed)) # {}
     /\ call'.ret # "THROW") =>
        /\ call'.ret = (IF isAcceptState(current_state_')
                        THEN "COMPLETE" ELSE "WAITING_FOR_INPUT")
        /\ stream_state_' = call'.ret
        /\ current_state_' \in {t.to : t \in Admitting(current_state_, Head(Unfed))}
        /\ current_input_position_' = current_input_position_ + 1
        /\ current_input_' = Append(current_input_, Head(Unfed))

\* The bytes of the chunk a feed(chunk) consumed, k of them: the call left
\* what feeding those k bytes one by one leaves, none of the first k - 1
\* returned ERROR, and the call stopped short only on ERROR.
C10_ChunkCase ==
    call'.op = "feedChunk" =>
        LET chunk == Unfed
            k == Len(current_input_') - Len(current_input_)
        IN  /\ k \in 1..Len(chunk)
            /\ current_input_' = current_input_ \o SubSeq(chunk, 1, k)
            /\ \A j \in 1..(k - 1) :
                  FeedEach(Self, SubSeq(chunk, 1, j)).m.stream_state_ # "ERROR"
            /\ \A f \in {FeedEach(Self, SubSeq(chunk, 1, k)).m} :
                  /\ Self' = f
                  /\ call'.ret \in {f.stream_state_, "THROW"}
            /\ k < Len(chunk) => call'.ret \in {"ERROR", "THROW"}

C10_FeedResult == [][C10_FeedCase /\ C10_ChunkCase]_vars

\* A feed(chunk) stopped at an ERROR with a byte of the chunk left unconsumed.
C10_Witness ==
    /\ call.op = "feedChunk" /\ call.ret = "ERROR"
    /\ Len(current_input_) < Len(client_input)

(***************************************************************************)
(* C11: end_of_stream() after at least one feed runs the epsilon closure    *)
(* once from the current state and returns COMPLETE if the state the        *)
(* closure stops in is an accept state, else ERROR with last error          *)
(* NOT_IN_ACCEPT_STATE; with no byte fed since construction, reset or       *)
(* reset_stream it returns ERROR with UNEXPECTED_END_OF_INPUT and leaves    *)
(* the current state unchanged.                                             *)
(***************************************************************************)
\* streaming_mode_ records that a byte was fed since construction, reset or
\* reset_stream (a one-shot run resets as well).
C11_FedSinceReset ==
    /\ call'.op \in {"feed", "feedChunk"} => streaming_mode_'
    /\ call'.op \in {"reset", "resetStream", "validate", "validateWithBacktracking"} =>
          ~streaming_mode_'
    /\ call'.op = "endOfStream" => streaming_mode_' = streaming_mode_

C11_AfterFeed ==
    (call'.op = "endOfStream" /\ streaming_mode_ /\ call'.ret # "THROW") =>
        /\ current_state_' = ClosureEnd(current_state_, {current_state_})
        /\ Len(trace_') - Len(trace_) < Cardinality(States)
        /\ IF isAcceptState(current_state_')
           THEN call'.ret = "COMPLETE" /\ last_error_' = last_error_
           ELSE /\ call'.ret = "ERROR"
                /\ last_error_' = ValidationError("NOT_IN_ACCEPT_STATE",
                                                  current_input_position_, NUL,
                                                  current_state_')
        /\ stream_state_' = call'.ret

C11_BeforeFeed ==
    (call'.op = "endOfStream" /\ ~streaming_mode_) =>
        /\ call'.ret = "ERROR"
        /\ stream_state_' = "ERROR"
        /\ last_error_' = ValidationError("UNEXPECTED_END_OF_INPUT", 0, NUL, current_state_)
        /\ current_state_' = current_state_
        /\ trace_' = trace_

C11_EndOfStream ==
    /\ ~streaming_mode_
    /\ [][C11_FedSinceReset /\ C11_AfterFeed /\ C11_BeforeFeed]_vars

\* An end_of_stream() after a feed returned COMPLETE in a state the closure led to.
C11_Witness ==
    /\ call.op = "endOfStream" /\ call.ret = "COMPLETE"
    /\ trace_ # <<>> /\ trace_[Len(trace_)].input_char = NUL

(***************************************************************************)
(* C12: reset_stream() puts the stream status back to READY (no byte fed)   *)
(* and changes nothing else: the current state, the input position, both    *)
(* capture lists, the last error and the graph are unchanged, and the next  *)
(* feed continues from the state the FSM was in.                            *)
(***************************************************************************)
C12_Frame ==
    call'.op = "resetStream" =>
        /\ stream_state_' = "READY"
        /\ ~streaming_mode_'
        /\ UNCHANGED <<graphVars, start_state_, current_state_, last_error_, trace_,
                       metrics_, captures_, active_captures_, current_input_position_,
                       current_input_, choice_stack_, backtracking_stats_>>

C12_NextFeedContinues ==
    (/\ call.op = "resetStream" /\ call'.op = "feed"
     /\ Admitting(current_state_, Head(Unfed)) # {}
     /\ call'.ret # "THROW") =>
        /\ current_state_' \in {t.to : t \in Admitting(current_state_, Head(Unfed))}
        /\ current_input_position_' = current_input_position_ + 1

C12_ResetStreamOnlyStreamState == [][C12_Frame /\ C12_NextFeedContinues]_vars

\* reset_stream() was called away from the start state, with a capture open
\* and an error recorded.
C12_Witness ==
    /\ call.op = "resetStream"
    /\ current_state_ # start_state_
    /\ active_captures_ # <<>>
    /\ last_error_ # NoError
    /\ current_input_position_ > 0

(***************************************************************************)
(* C13: the epsilon closure runs after each consumed byte: when the state   *)
(* entered by a byte of validate has no CLASS transition at all and its     *)
(* closure stops in a state with a CLASS transition admitting the next      *)
(* byte, that next byte is consumed.                                        *)
(***************************************************************************)
OnlyEpsilonForward(s) ==
    /\ \A t \in TransitionSet : t.from = s => t.type = "EPSILON"
    /\ \E t \in TransitionSet : t.from = s

C13_ClosureAfterEachByte ==
    AfterValidate =>
        \A k \in 1..Len(ByteEntries) :
            (/\ k < Len(client_input)
             /\ OnlyEpsilonForward(ByteEntries[k].to_state)
             /\ Admitting(ClosureEnd(ByteEntries[k].to_state, {ByteEntries[k].to_state}),
                          client_input[k + 1]) # {})
                => Len(ByteEntries) > k

(***************************************************************************)
(* Graphs with epsilon cycles                                               *)
(***************************************************************************)
\* An FSM built from a choice of the edges of pool, with a backtracking depth
\* limit out of depths, marked choice points out of flags and callbacks out of
\* callbacks, before its first run on an input out of inputs.
Constructed(pool, depths, flags, inputs, callbacks) ==
    /\ \E keep \in SUBSET (1..Len(pool)) : transitions_ = WithIds(SubSeq2(pool, keep))
    /\ transition_map_ = rebuildTransitionMap(transitions_)
    /\ transition_map_dirty_ = FALSE
    /\ accept_states_ \in AcceptSets
    /\ states_ = [s \in States |-> StateTypeOf(s, 1, accept_states_)]
    /\ next_state_id_ = Cardinality(States) + 1
    /\ next_transition_id_ = Len(transitions_) + 1
    /\ \E cb \in callbacks :
          /\ on_entry = cb.entry /\ on_exit = cb.exit
          /\ on_transition = [id \in 1..Len(transitions_) |-> cb.transition]
    /\ debug_flags \in FlagSets
    /\ max_backtrack_depth_ \in depths
    /\ is_choice_point \in flags
    /\ start_state_ = 1
    /\ current_state_ = 1
    /\ last_error_ = NoError
    /\ trace_ = <<>>
    /\ metrics_ = ZeroMetrics
    /\ captures_ = <<>>
    /\ active_captures_ = <<>>
    /\ current_input_position_ = 0
    /\ current_input_ = <<>>
    /\ stream_state_ = "READY"
    /\ streaming_mode_ = FALSE
    /\ choice_stack_ = <<>>
    /\ backtracking_stats_ = ZeroStats
    /\ client_input \in inputs
    /\ call = [op |-> "construct", ret |-> "none"]
    /\ history = <<>>
    /\ user_data_ = <<>>
    /\ abnf = <<>>

\* Candidate edges with epsilon cycles of length one, two and three.
CyclePool ==
    << Edge(1, 2, "ABNF_RULE", {ByteA}, PRIORITY_NORMAL),
       Edge(1, 2, "EPSILON", {}, PRIORITY_NORMAL),
       Edge(2, 2, "EPSILON", {}, PRIORITY_HIGH),
       Edge(2, 1, "EPSILON", {}, PRIORITY_NORMAL),
       Edge(2, 3, "EPSILON", {}, PRIORITY_LOW),
       Edge(3, 1, "EPSILON", {}, PRIORITY_NORMAL) >>

InitCycles == Constructed(CyclePool, {0}, {{}}, Inputs, CallbackConfigs)

SpecCycles == InitCycles /\ [][Next]_vars

(***************************************************************************)
(* C14: an epsilon closure never enters a state twice (the state it starts  *)
(* in included) and takes at most (number of states - 1) epsilon steps, on  *)
(* graphs with epsilon cycles as on any other.                              *)
(***************************************************************************)
\* from is where a closure started and steps are the trace entries it wrote.
SimplePath(from, steps) ==
    LET path == <<from>> \o [k \in 1..Len(steps) |-> steps[k].to_state]
    IN  /\ \A k \in 1..Len(steps) :
              /\ steps[k].input_char = NUL
              /\ transitions_[steps[k].transition_id].type = "EPSILON"
              /\ steps[k].from_state = path[k]
        /\ \A i, j \in 1..Len(path) : i # j => path[i] # path[j]
        /\ Len(steps) <= Cardinality(States) - 1

C14_ValidateClosure ==
    (AfterValidate /\ AllBytesConsumed) => SimplePath(StateAfterBytes, EpsilonEntries)

C14_StreamClosure ==
    call'.op = "endOfStream" =>
        /\ Len(trace_') >= Len(trace_)
        /\ SubSeq(trace_', 1, Len(trace_)) = trace_
        /\ SimplePath(current_state_, SubSeq(trace_', Len(trace_) + 1, Len(trace_')))

C14_ClosureTerminates == []C14_ValidateClosure /\ [][C14_StreamClosure]_vars

\* A closure went round an epsilon cycle as far as it could: two steps, and
\* an epsilon edge of the state it stopped in leads back into its path.
C14_Witness ==
    /\ call.op = "endOfStream"
    /\ Len(trace_) >= 2
    /\ trace_[Len(trace_)].input_char = NUL
    /\ trace_[Len(trace_) - 1].input_char = NUL
    /\ \E t \in TransitionSet :
          /\ t.type = "EPSILON" /\ t.from = current_state_
          /\ t.to = trace_[Len(trace_) - 1].from_state

(***************************************************************************)
(* C15: in greedy validate and in streaming, every closed capture has       *)
(* value = input[start_position .. end_position), and at the input position *)
(* p the run is at every active capture begun at position s has             *)
(* buffer = input[s .. p), the captures being begun and ended by state      *)
(* callbacks.                                                               *)
(***************************************************************************)
\* input[from .. to), positions counted from 0.
Slice(x, from, to) == SubSeq(x, from + 1, to)

CapturesMatch(m) ==
    /\ \A i \in 1..Len(m.captures_) :
          LET c == m.captures_[i]
          IN  /\ c.start_position <= c.end_position
              /\ c.end_position <= Len(m.current_input_)
              /\ c.value = Slice(m.current_input_, c.start_position, c.end_position)
    /\ \A i \in 1..Len(m.active_captures_) :
          LET a == m.active_captures_[i]
          IN  /\ a.start_position <= m.current_input_position_
              /\ m.current_input_position_ <= Len(m.current_input_)
              /\ a.buffer = Slice(m.current_input_, a.start_position,
                                  m.current_input_position_)

C15_CapturesMatchInput ==
    call.op \in {"validate", "feed", "feedChunk", "endOfStream"} => CapturesMatch(Self)

(***************************************************************************)
(* Graphs with choices in the states a capture is active or closed in       *)
(***************************************************************************)
\* Candidate edges: state 2 and state 3 each have two edges on one byte.
BacktrackPool ==
    << Edge(1, 2, "ABNF_RULE", {ByteA}, PRIORITY_NORMAL),
       Edge(2, 2, "ABNF_RULE", {ByteB}, PRIORITY_HIGH),
       Edge(2, 3, "ABNF_RULE", {ByteB}, PRIORITY_NORMAL),
       Edge(3, 3, "ABNF_RULE", {ByteA}, PRIORITY_HIGH),
       Edge(3, 1, "ABNF_RULE", {ByteA}, PRIORITY_NORMAL),
       Edge(3, 3, "ABNF_RULE", {ByteB}, PRIORITY_NORMAL),
       Edge(1, 1, "ABNF_RULE", {ByteB}, PRIORITY_NORMAL) >>

\* Inputs long enough to close a capture, make a choice and go on after it.
BacktrackInputs == SeqsUpTo(MaxLen + 2)

\* setMaxBacktrackDepth(1) or markAsChoicePoint(2) may have been called.
InitBacktrack ==
    \/ Constructed(BacktrackPool, {0, 1}, {{}}, BacktrackInputs, CallbackConfigs)
    \/ Constructed(BacktrackPool, {0}, {{2}}, BacktrackInputs, CallbackConfigs)

\* The client validates whole inputs only.
NextBacktrack ==
    \/ Validate
    \/ ValidateWithBacktracking
    \/ Reset

SpecBacktrack == InitBacktrack /\ [][NextBacktrack]_vars

(***************************************************************************)
(* C16: when validateWithBacktracking has accepted the input, every closed  *)
(* capture has value = input[start_position .. end_position) and every      *)
(* capture still active has buffer = input[start_position .. end of input): *)
(* each consumed byte was appended to the captures active at that position, *)
(* also the byte consumed by an alternative taken after a backtrack.        *)
(***************************************************************************)
C16_Accepted == call.op = "validateWithBacktracking" /\ call.ret = "TRUE"

C16_BuffersAreInputSlices ==
    C16_Accepted =>
        /\ \A i \in 1..Len(captures_) :
              LET c == captures_[i]
              IN  /\ c.start_position <= c.end_position
                  /\ c.end_position <= Len(client_input)
                  /\ c.value = Slice(client_input, c.start_position, c.end_position)
        /\ \A i \in 1..Len(active_captures_) :
              LET a == active_captures_[i]
              IN  /\ a.start_position <= Len(client_input)
                  /\ a.buffer = Slice(client_input, a.start_position, Len(client_input))

(***************************************************************************)
(* C17: whenever validateWithBacktracking backtracks to a choice point, the *)
(* closed captures, the active captures and the input position it goes on   *)
(* with are those the FSM had when the choice point was pushed; when the    *)
(* run accepts, the captures that were closed before the choice point it    *)
(* backtracked to last are still the first closed captures of the FSM.      *)
(***************************************************************************)
Restores == {j \in 1..Len(history) : history[j].kind = "restore"}

\* The steps before entry j that pushed a choice point which was on the stack
\* at the depth and input position of the one restored by entry j.
PushesOf(j) ==
    {k \in 1..(j - 1) :
        /\ history[k].kind = "step"
        /\ Len(history[k].stack) = Len(history[k].stack_before) + 1
        /\ Len(history[k].stack) = history[j].depth
        /\ history[k].position = history[j].cp.position}

\* The step that pushed the choice point restored by entry j.
Creation(j) == history[CHOOSE k \in PushesOf(j) : \A l \in PushesOf(j) : l <= k]

C17_RestoredAsPushed ==
    \A j \in Restores :
        /\ PushesOf(j) # {}
        /\ history[j].captures = Creation(j).captures
        /\ history[j].active = Creation(j).active
        /\ history[j].input_position = Creation(j).input_position

C17_ClosedBeforeKept ==
    (call.op = "validateWithBacktracking" /\ call.ret = "TRUE" /\ Restores # {}) =>
        \A j \in Restores :
            (\A l \in Restores : l <= j) =>
                IsPrefix(Creation(j).captures, captures_)

C17_RestoreIsExact == C17_RestoredAsPushed /\ C17_ClosedBeforeKept

(***************************************************************************)
(* C18: no two active captures have the same name.  beginCapture of a name  *)
(* that is active throws and endCapture of a name that is not active        *)
(* throws, both leaving the active and the closed captures as they were;    *)
(* beginCapture of a name that is not active appends an empty capture at    *)
(* the input position to the active list; endCapture of an active name      *)
(* removes it from the active list and appends it, with its buffer as       *)
(* value, to the end of the closed list.  A feed whose callback throws      *)
(* leaves both lists unchanged, and an endOfStream that leaves a state      *)
(* whose exit callback ends the active capture moves it to the end of the   *)
(* closed list.                                                             *)
(***************************************************************************)
ActiveNamesDistinct(m) ==
    \A i, j \in 1..Len(m.active_captures_) :
        m.active_captures_[i].name = m.active_captures_[j].name => i = j

SameCaptures(m1, m2) ==
    m1.captures_ = m2.captures_ /\ m1.active_captures_ = m2.active_captures_

Closed(a, end) ==
    [name |-> a.name, start_position |-> a.start_position,
     end_position |-> end, value |-> a.buffer]

C18_BeginAndEnd ==
    /\ ActiveNamesDistinct(Self)
    /\ \A b \in {beginCapture(Self, CaptureName)}, e \in {endCapture(Self, CaptureName)} :
          IF IsActive(Self, CaptureName)
          THEN /\ b.thrown /\ SameCaptures(b.m, Self)
               /\ ~e.thrown
               /\ \E i \in 1..Len(active_captures_) :
                     /\ active_captures_[i].name = CaptureName
                     /\ e.m.active_captures_ =
                            SubSeq(active_captures_, 1, i - 1)
                                \o SubSeq(active_captures_, i + 1, Len(active_captures_))
                     /\ e.m.captures_ =
                            Append(captures_,
                                   Closed(active_captures_[i], current_input_position_))
               /\ ActiveNamesDistinct(e.m)
          ELSE /\ e.thrown /\ SameCaptures(e.m, Self)
               /\ ~b.thrown
               /\ b.m.captures_ = captures_
               /\ b.m.active_captures_ =
                      Append(active_captures_,
                             [name |-> CaptureName,
                              start_position |-> current_input_position_,
                              buffer |-> <<>>])
               /\ ActiveNamesDistinct(b.m)

C18_Step ==
    /\ (call'.op = "feed" /\ call'.ret = "THROW") =>
          /\ IsActive(Self, CaptureName)
          /\ captures_' = captures_
          /\ active_captures_' = active_captures_
    /\ (/\ call'.op = "endOfStream" /\ call'.ret # "THROW"
        /\ on_exit[current_state_] = "end"
        /\ current_state_' # current_state_
        /\ IsActive(Self, CaptureName)) =>
          /\ active_captures_' = <<>>
          /\ captures_' = Append(captures_,
                                 Closed(active_captures_[1], current_input_position_'))

C18_OneActiveCapturePerName == []C18_BeginAndEnd /\ [][C18_Step]_vars

C18_Witness ==
    /\ call.op = "feed" /\ call.ret = "THROW"
    /\ IsActive(Self, CaptureName)

(***************************************************************************)
(* C19: at every byte validateWithBacktracking takes with a matching        *)
(* transition, if more than one transition of the state admits the byte or  *)
(* the state is marked as a choice point (and the depth limit allows a      *)
(* push), a choice point for that state and position is pushed whose        *)
(* alternatives are the admitting transitions but the first.                *)
(***************************************************************************)
Steps == {j \in 1..Len(history) : history[j].kind = "step"}

PushAllowed(e) ==
    max_backtrack_depth_ = 0 \/ Len(e.stack_before) < max_backtrack_depth_

PushedChoicePoint(e) ==
    /\ Len(e.stack) = Len(e.stack_before) + 1
    /\ SubSeq(e.stack, 1, Len(e.stack_before)) = e.stack_before
    /\ \E cp \in {e.stack[Len(e.stack)]} :
          /\ cp.state = e.state
          /\ cp.position = e.position
          /\ cp.remaining = Tail(e.valid)

C19_ChoicePointPushed ==
    \A j \in Steps :
        \E e \in {history[j]} :
            (PushAllowed(e) /\ (Len(e.valid) > 1 \/ e.flagged)) => PushedChoicePoint(e)

(***************************************************************************)
(* C20: with max_backtrack_depth_ = d > 0 the choice stack holds at most d  *)
(* choice points before and after every byte taken, at every backtrack and  *)
(* at the end of validateWithBacktracking, and max_stack_depth <= d; at a   *)
(* byte with several admitting transitions and d choice points on the stack *)
(* nothing is pushed and the first admitting transition is taken.  With     *)
(* d = 0 every byte with several admitting transitions pushes a choice      *)
(* point, whatever the depth of the stack.                                  *)
(***************************************************************************)
AfterBacktracking == call.op = "validateWithBacktracking"

C20_Bounded ==
    (AfterBacktracking /\ max_backtrack_depth_ > 0) =>
        /\ Len(choice_stack_) <= max_backtrack_depth_
        /\ backtracking_stats_.max_stack_depth <= max_backtrack_depth_
        /\ \A j \in Restores : history[j].depth <= max_backtrack_depth_
        /\ \A j \in Steps :
              \E e \in {history[j]} :
                 /\ Len(e.stack_before) <= max_backtrack_depth_
                 /\ Len(e.stack) <= max_backtrack_depth_
                 /\ (Len(e.valid) > 1 /\ Len(e.stack_before) = max_backtrack_depth_) =>
                       /\ e.stack = e.stack_before
                       /\ e.next = e.valid[1].to \/ call.ret = "THROW"

C20_Unlimited ==
    (AfterBacktracking /\ max_backtrack_depth_ = 0) =>
        \A j \in Steps :
            \E e \in {history[j]} : Len(e.valid) > 1 => PushedChoicePoint(e)

C20_DepthLimit == C20_Bounded /\ C20_Unlimited

C20_Witness ==
    /\ AfterBacktracking
    /\ max_backtrack_depth_ = 1
    /\ backtracking_stats_.max_stack_depth = 1
    /\ \E j \in Steps :
          /\ Len(history[j].valid) > 1
          /\ Len(history[j].stack_before) = 1
          /\ history[j].stack = history[j].stack_before
          /\ history[j].next = history[j].valid[1].to

(***************************************************************************)
(* Graphs whose states and transitions all carry a logging callback         *)
(***************************************************************************)
\* Candidate edges: byte edges between states, self-loops and an epsilon chain.
CallbackPool ==
    << Edge(1, 2, "ABNF_RULE", {ByteA}, PRIORITY_NORMAL),
       Edge(1, 1, "ABNF_RULE", {ByteB}, PRIORITY_NORMAL),
       Edge(2, 3, "ABNF_RULE", {ByteB}, PRIORITY_NORMAL),
       Edge(2, 3, "EPSILON", {}, PRIORITY_NORMAL),
       Edge(3, 1, "EPSILON", {}, PRIORITY_NORMAL),
       Edge(3, 3, "ABNF_RULE", {ByteA}, PRIORITY_NORMAL) >>

LoggingCallbacks ==
    { [entry |-> [s \in States |-> "log"],
       exit |-> [s \in States |-> "log"],
       transition |-> "log"] }

InitCallbacks == Constructed(CallbackPool, {0}, {{}}, Inputs, LoggingCallbacks)

SpecCallbacks == InitCallbacks /\ [][Next]_vars

(***************************************************************************)
(* C21: the callbacks fired by validate, feed and endOfStream are, for      *)
(* every transition taken in the order of the trace: exit of the state      *)
(* left, the transition's callback, entry of the state entered, where a     *)
(* byte taken by a self-loop fires the transition's callback only and an    *)
(* epsilon step always fires all three with the byte \0; each callback is   *)
(* given the input position of the step.                                    *)
(***************************************************************************)
IsEpsilonEntry(e) ==
    \E t \in TransitionSet : t.id = e.transition_id /\ t.type = "EPSILON"

\* The callbacks due for one trace entry at an input position.
HooksOf(e, position) ==
    LET tr == [hook |-> "transition", from |-> e.from_state, to |-> e.to_state,
               ch |-> e.input_char, position |-> position, id |-> e.transition_id]
        ex == [hook |-> "exit", state |-> e.from_state, position |-> position,
               ch |-> e.input_char]
        en == [hook |-> "entry", state |-> e.to_state, position |-> position,
               ch |-> e.input_char]
    IN  IF IsEpsilonEntry(e) \/ e.from_state # e.to_state
        THEN <<ex, tr, en>>
        ELSE <<tr>>

RECURSIVE HooksOfAll(_, _)
\* The callbacks due for trace entries es, the first taken at position.
HooksOfAll(es, position) ==
    IF es = <<>> THEN <<>>
    ELSE HooksOf(Head(es), position)
            \o HooksOfAll(Tail(es),
                          IF IsEpsilonEntry(Head(es)) THEN position ELSE position + 1)

C21_ValidateCase ==
    call.op = "validate" =>
        /\ user_data_ = HooksOfAll(trace_, 0)
        /\ \A i \in 1..Len(trace_) : IsEpsilonEntry(trace_[i]) <=> trace_[i].input_char = NUL

C21_StreamCase ==
    call'.op \in {"feed", "feedChunk", "endOfStream"} =>
        /\ IsPrefix(trace_, trace_')
        /\ user_data_' = HooksOfAll(SubSeq(trace_', Len(trace_) + 1, Len(trace_')),
                                    current_input_position_)

C21_CallbackOrder == []C21_ValidateCase /\ [][C21_StreamCase]_vars

C21_Witness ==
    /\ call.op = "validate"
    /\ Len(user_data_) >= 7
    /\ \E i \in 1..Len(trace_) :
          trace_[i].from_state = trace_[i].to_state /\ ~IsEpsilonEntry(trace_[i])
    /\ \E i \in 1..Len(trace_) : IsEpsilonEntry(trace_[i])

(***************************************************************************)
(* C22: with COLLECT_METRICS set, after validate transitions_taken and      *)
(* characters_processed both equal the number of bytes consumed and         *)
(* epsilon_transitions equals the number of epsilon steps of the closure;   *)
(* reset zeroes the counters, every feed that consumes its byte adds one to *)
(* transitions_taken and to characters_processed and nothing to             *)
(* epsilon_transitions, a feed that fails adds nothing, and endOfStream     *)
(* adds the number of its epsilon steps to epsilon_transitions only: a      *)
(* streaming run that has consumed k bytes has both byte counters at k.     *)
(***************************************************************************)
Bytes(es) == Len(SelectSeq(es, LAMBDA e : ~IsEpsilonEntry(e)))

Epsilons(es) == Len(SelectSeq(es, LAMBDA e : IsEpsilonEntry(e)))

C22_ValidateCase ==
    (call.op = "validate" /\ hasCollectMetrics) =>
        /\ metrics_.transitions_taken = Bytes(trace_)
        /\ metrics_.characters_processed = Bytes(trace_)
        /\ metrics_.epsilon_transitions = Epsilons(trace_)
        /\ call.ret = "TRUE" => Bytes(trace_) = Len(client_input)
        /\ last_error_.type = "NO_MATCHING_TRANSITION" =>
              Bytes(trace_) = last_error_.position

C22_StreamCase ==
    hasCollectMetrics =>
        /\ call'.op = "reset" => metrics_' = ZeroMetrics
        /\ call'.op \in {"feed", "feedChunk", "endOfStream"} =>
              \E new \in {SubSeq(trace_', Len(trace_) + 1, Len(trace_'))} :
                 /\ IsPrefix(trace_, trace_')
                 /\ metrics_'.transitions_taken = metrics_.transitions_taken + Bytes(new)
                 /\ metrics_'.characters_processed =
                        metrics_.characters_processed + Bytes(new)
                 /\ metrics_'.epsilon_transitions =
                        metrics_.epsilon_transitions + Epsilons(new)
                 /\ Bytes(new) = current_input_position_' - current_input_position_
                 /\ call'.op = "feed" =>
                       Bytes(new) = IF call'.ret \in {"WAITING_FOR_INPUT", "COMPLETE"}
                                    THEN 1 ELSE 0
                 /\ call'.op = "endOfStream" => Bytes(new) = 0
                 /\ call'.op # "endOfStream" => Epsilons(new) = 0

C22_Metrics == []C22_ValidateCase /\ [][C22_StreamCase]_vars

C22_Witness ==
    /\ call.op = "endOfStream"
    /\ hasCollectMetrics
    /\ metrics_.transitions_taken = 2
    /\ metrics_.characters_processed = 2
    /\ metrics_.epsilon_transitions = 2

(***************************************************************************)
(* Construction: the calls that build the graph                             *)
(***************************************************************************)
MaxStates == 2

MaxTransitions == 1

\* The members the building calls read and write, as one record.
Graph ==
    [states_ |-> states_,
     next_state_id_ |-> next_state_id_,
     next_transition_id_ |-> next_transition_id_,
     transitions_ |-> transitions_,
     transition_map_dirty_ |-> transition_map_dirty_,
     accept_states_ |-> accept_states_,
     on_entry |-> on_entry,
     on_exit |-> on_exit,
     on_transition |-> on_transition,
     start_state_ |-> start_state_,
     current_state_ |-> current_state_]

\* The building calls leave the map itself to the next call that reads it.
InstallGraph(g) ==
    /\ states_' = g.states_
    /\ next_state_id_' = g.next_state_id_
    /\ next_transition_id_' = g.next_transition_id_
    /\ transitions_' = g.transitions_
    /\ transition_map_dirty_' = g.transition_map_dirty_
    /\ accept_states_' = g.accept_states_
    /\ on_entry' = g.on_entry
    /\ on_exit' = g.on_exit
    /\ on_transition' = g.on_transition
    /\ start_state_' = g.start_state_
    /\ current_state_' = g.current_state_
    /\ UNCHANGED <<transition_map_, debug_flags, max_backtrack_depth_, is_choice_point,
                   last_error_, trace_, metrics_, captures_, active_captures_,
                   current_input_position_, current_input_, stream_state_,
                   streaming_mode_, choice_stack_, backtracking_stats_,
                   client_input, history, user_data_, abnf>>

hasState(g, id) == id \in DOMAIN g.states_

\* Returns the graph with the new state; its id is the old next_state_id_.
addState(g, type) ==
    [g EXCEPT !.states_ = @ @@ (g.next_state_id_ :> type),
              !.on_entry = @ @@ (g.next_state_id_ :> "none"),
              !.on_exit = @ @@ (g.next_state_id_ :> "none"),
              !.next_state_id_ = @ + 1]

setStartState(g, state) ==
    IF ~hasState(g, state) THEN Thrown(g)
    ELSE Ok([g EXCEPT !.start_state_ = state,
                      !.current_state_ = state,
                      !.states_[state] = "START"])

addAcceptState(g, state) ==
    IF ~hasState(g, state) THEN Thrown(g)
    ELSE Ok([g EXCEPT !.accept_states_ = @ \cup {state},
                      !.states_[state] = IF @ # "START" THEN "ACCEPT" ELSE @])

\* A push that overwrites the last transition instead of appending.
ReplaceLastTransition(g, from, to, type, rule, priority) ==
    [g EXCEPT !.transitions_ =
                  IF @ = <<>> THEN <<>>
                  ELSE [@ EXCEPT ![Len(@)] =
                           [id |-> g.next_transition_id_, from |-> from, to |-> to,
                            type |-> type, rule |-> rule, priority |-> priority]],
              !.transition_map_dirty_ = TRUE,
              !.on_transition = @ @@ (g.next_transition_id_ :> "none"),
              !.next_transition_id_ = @ + 1]

\* transitions_.push_back(trans) with the next transition id.
PushTransition(g, from, to, type, rule, priority) ==
    [g EXCEPT !.transitions_ =
                  Append(@, [id |-> g.next_transition_id_, from |-> from, to |-> to,
                             type |-> type, rule |-> rule, priority |-> priority]),
              !.transition_map_dirty_ = TRUE,
              !.on_transition = @ @@ (g.next_transition_id_ :> "none"),
              !.next_transition_id_ = @ + 1]

\* An addTransition that looks for the target state only after the push.
AddTransitionThenCheck(g, from, to, rule, priority) ==
    IF ~hasState(g, from) THEN Thrown(g)
    ELSE IF ~hasState(g, to)
         THEN Thrown(PushTransition(g, from, to, "ABNF_RULE", rule, priority))
         ELSE Ok(PushTransition(g, from, to, "ABNF_RULE", rule, priority))

addTransition(g, from, to, rule, priority) ==
    IF ~hasState(g, from) \/ ~hasState(g, to) THEN Thrown(g)
    ELSE Ok(PushTransition(g, from, to, "ABNF_RULE", rule, priority))

addEpsilonTransition(g, from, to) ==
    IF ~hasState(g, from) \/ ~hasState(g, to) THEN Thrown(g)
    ELSE Ok(PushTransition(g, from, to, "EPSILON", {}, PRIORITY_NORMAL))

setStateEntryCallback(g, state, callback) ==
    IF ~hasState(g, state) THEN Thrown(g)
    ELSE Ok([g EXCEPT !.on_entry[state] = callback])

setStateExitCallback(g, state, callback) ==
    IF ~hasState(g, state) THEN Thrown(g)
    ELSE Ok([g EXCEPT !.on_exit[state] = callback])

setTransitionCallback(g, transition_id, callback) ==
    IF \E i \in 1..Len(g.transitions_) : g.transitions_[i].id = transition_id
    THEN Ok([g EXCEPT !.on_transition[transition_id] = callback])
    ELSE Thrown(g)

\* FSM(): no states, no transitions, ids starting at 1.
InitBuild ==
    /\ states_ = <<>>
    /\ next_state_id_ = 1
    /\ next_transition_id_ = 1
    /\ transitions_ = <<>>
    /\ transition_map_ = <<>>
    /\ transition_map_dirty_ = TRUE
    /\ accept_states_ = {}
    /\ on_entry = <<>>
    /\ on_exit = <<>>
    /\ on_transition = <<>>
    /\ debug_flags \in FlagSets
    /\ max_backtrack_depth_ = 0
    /\ is_choice_point = {}
    /\ start_state_ = InvalidId
    /\ current_state_ = InvalidId
    /\ last_error_ = NoError
    /\ trace_ = <<>>
    /\ metrics_ = ZeroMetrics
    /\ captures_ = <<>>
    /\ active_captures_ = <<>>
    /\ current_input_position_ = 0
    /\ current_input_ = <<>>
    /\ stream_state_ = "READY"
    /\ streaming_mode_ = FALSE
    /\ choice_stack_ = <<>>
    /\ backtracking_stats_ = ZeroStats
    /\ client_input = <<>>
    /\ call = [op |-> "construct", ret |-> "none"]
    /\ history = <<>>
    /\ user_data_ = <<>>
    /\ abnf = <<>>

\* What a building call returned: "OK", or "THROW" for std::invalid_argument.
Returned(r) == IF r.thrown THEN "THROW" ELSE "OK"

\* The state ids a client passes: the first state and one that does not exist.
SomeStates == {1, next_state_id_}

AddState ==
    /\ next_state_id_ <= MaxStates
    /\ InstallGraph(addState(Graph, "NORMAL"))
    /\ call' = [op |-> "addState", ret |-> "OK"]

SetStartState ==
    \E state \in SomeStates :
        \E r \in {setStartState(Graph, state)} :
            InstallGraph(r.m) /\ call' = [op |-> "setStartState", ret |-> Returned(r)]

AddAcceptState ==
    \E state \in SomeStates :
        \E r \in {addAcceptState(Graph, state)} :
            InstallGraph(r.m) /\ call' = [op |-> "addAcceptState", ret |-> Returned(r)]

AddTransition ==
    /\ Len(transitions_) < MaxTransitions
    /\ \E from \in 1..next_state_id_, to \in 1..next_state_id_ :
          \E r \in {addTransition(Graph, from, to, {ByteA}, PRIORITY_HIGH)} :
              InstallGraph(r.m) /\ call' = [op |-> "addTransition", ret |-> Returned(r)]

AddEpsilonTransition ==
    /\ Len(transitions_) < MaxTransitions
    /\ \E from \in 1..next_state_id_, to \in 1..next_state_id_ :
          \E r \in {addEpsilonTransition(Graph, from, to)} :
              InstallGraph(r.m)
              /\ call' = [op |-> "addEpsilonTransition", ret |-> Returned(r)]

SetStateEntryCallback ==
    \E state \in SomeStates :
        \E r \in {setStateEntryCallback(Graph, state, "log")} :
            InstallGraph(r.m)
            /\ call' = [op |-> "setStateEntryCallback", ret |-> Returned(r)]

SetStateExitCallback ==
    \E state \in SomeStates :
        \E r \in {setStateExitCallback(Graph, state, "log")} :
            InstallGraph(r.m)
            /\ call' = [op |-> "setStateExitCallback", ret |-> Returned(r)]

SetTransitionCallback ==
    \E transition_id \in {1, next_transition_id_} :
        \E r \in {setTransitionCallback(Graph, transition_id, "log")} :
            InstallGraph(r.m)
            /\ call' = [op |-> "setTransitionCallback", ret |-> Returned(r)]


(***************************************************************************)
(* Merging an embedded FSM                                                  *)
(***************************************************************************)
\* The orders in which a loop over an unordered container can visit S.
Orders(S) ==
    {o \in [1..Cardinality(S) -> S] : \A i, j \in DOMAIN o : o[i] = o[j] => i = j}

\* std::sort with the comparison a.priority > b.priority: every order of the
\* transitions at the indices in rest that is descending in priority; the
\* order of equal priorities is whatever the library's algorithm leaves.
RECURSIVE SortedOrders(_, _)
SortedOrders(ts, rest) ==
    IF rest = {} THEN {<<>>}
    ELSE UNION {{<<ts[i]>> \o tail : tail \in SortedOrders(ts, rest \ {i})} :
                   i \in {k \in rest : \A j \in rest : ts[k].priority >= ts[j].priority}}

sortTransitionsByPriority(ts) == SortedOrders(ts, DOMAIN ts)

\* result.state_mapping after the first two loops: start to from_state, then
\* every accept state to to_state (a later assignment replaces an earlier one).
MappedEndpoints(from_state, to_state, embedded) ==
    [s \in {embedded.start_state_} \cup embedded.accept_states_ |->
        IF s \in embedded.accept_states_ THEN to_state ELSE from_state]

\* The loop over embedded.states_, visiting the states without a mapping in
\* the given order: each gets a new NORMAL state.
RECURSIVE AddFreshStates(_, _, _)
AddFreshStates(g, state_mapping, order) ==
    IF order = <<>> THEN [g |-> g, state_mapping |-> state_mapping]
    ELSE AddFreshStates(addState(g, "NORMAL"),
                        state_mapping @@ (Head(order) :> g.next_state_id_),
                        Tail(order))

\* state_mapping[s]: std::map::operator[] gives the invalid id for a missing key.
MappedState(state_mapping, s) ==
    IF s \in DOMAIN state_mapping THEN state_mapping[s] ELSE InvalidId

\* The loop over embedded.transitions_; an exception of addTransition or
\* addEpsilonTransition leaves the loop with what was added so far.
RECURSIVE AddMappedTransitions(_, _, _)
AddMappedTransitions(g, state_mapping, ts) ==
    IF ts = <<>> THEN Ok(g)
    ELSE Local(IF Head(ts).type = "EPSILON"
               THEN addEpsilonTransition(g, MappedState(state_mapping, Head(ts).from),
                                         MappedState(state_mapping, Head(ts).to))
               ELSE addTransition(g, MappedState(state_mapping, Head(ts).from),
                                  MappedState(state_mapping, Head(ts).to),
                                  Head(ts).rule, Head(ts).priority),
               LAMBDA r : IF r.thrown THEN r
                          ELSE AddMappedTransitions(r.m, state_mapping, Tail(ts)))

\* The graph before the final sort, and the mapping used.
mergeStatesAndTransitions(g, from_state, to_state, embedded, order) ==
    Local(AddFreshStates(g, MappedEndpoints(from_state, to_state, embedded), order),
          LAMBDA fresh :
              Local(AddMappedTransitions(fresh.g, fresh.state_mapping,
                                         embedded.transitions_),
                    LAMBDA r : [thrown |-> r.thrown, m |-> r.m,
                                state_mapping |-> fresh.state_mapping]))

mergeEmbeddedFSM(g, from, to, embedded_fsm, order) ==
    IF ~hasState(g, from) \/ ~hasState(g, to)
    THEN [thrown |-> TRUE, m |-> g, state_mapping |-> <<>>]
    ELSE mergeStatesAndTransitions(g, from, to, embedded_fsm, order)

\* Embedded FSMs as a client builds them: states 1..n, start state 1.
EmbeddedStates == 1..(MaxStates + 1)

EmbeddedPool ==
    [i \in 1..(MaxStates + 1) |->
        IF i = MaxStates + 1
        THEN Edge(1, i, "ABNF_RULE", {ByteB}, PRIORITY_LOW)
        ELSE IF i % 2 = 1
             THEN Edge(i, i + 1, "ABNF_RULE", {ByteA}, PRIORITY_HIGH)
             ELSE Edge(i, i + 1, "EPSILON", {}, PRIORITY_NORMAL)]

EmbeddedAccepts == {{}, {MaxStates + 1}, {MaxStates, MaxStates + 1}, {1, MaxStates + 1}}

EmbeddedFSMs ==
    {[states_ |-> [s \in EmbeddedStates |-> StateTypeOf(s, 1, accepts)],
      start_state_ |-> 1,
      accept_states_ |-> accepts,
      transitions_ |-> WithIds(SubSeq2(EmbeddedPool, keep))] :
        accepts \in EmbeddedAccepts, keep \in SUBSET (1..Len(EmbeddedPool))}

\* The outer FSM before the merge.
OuterPool ==
    << Edge(1, 2, "ABNF_RULE", {ByteA}, PRIORITY_LOW),
       Edge(2, 3, "EPSILON", {}, PRIORITY_NORMAL),
       Edge(1, 3, "ABNF_RULE", {ByteB}, PRIORITY_HIGH) >>

InitMerge ==
    Constructed(OuterPool, {0}, {{}}, {<<>>},
                {[entry |-> NoCallbacks, exit |-> NoCallbacks, transition |-> "none"]})

\* One call of mergeEmbeddedFSM with an embedded FSM of the given set.
MergeOneOf(embedded_fsms) ==
    \E from \in 1..next_state_id_, to \in 1..next_state_id_, embedded_fsm \in embedded_fsms :
        \E order \in Orders(DOMAIN embedded_fsm.states_
                            \ ({embedded_fsm.start_state_} \cup embedded_fsm.accept_states_)) :
            \E r \in {mergeEmbeddedFSM(Graph, from, to, embedded_fsm, order)} :
                \E sorted \in (IF r.thrown THEN {r.m.transitions_}
                               ELSE sortTransitionsByPriority(r.m.transitions_)) :
                    /\ InstallGraph([r.m EXCEPT !.transitions_ = sorted,
                                          !.transition_map_dirty_ = IF r.thrown THEN @ ELSE TRUE])
                    /\ call' = [op |-> "mergeEmbeddedFSM", ret |-> Returned(r),
                                from |-> from, to |-> to, embedded_fsm |-> embedded_fsm]

MergeEmbeddedFSM ==
    /\ call.op = "construct"
    /\ MergeOneOf(EmbeddedFSMs)

SpecMerge == InitMerge /\ [][MergeEmbeddedFSM]_vars

\* An embedded FSM of two states: 1 -b-> 2, start state 1, accept state 2.
SmallEmbedded ==
    [states_ |-> [s \in 1..2 |-> StateTypeOf(s, 1, {2})],
     start_state_ |-> 1,
     accept_states_ |-> {2},
     transitions_ |-> WithIds(<<Edge(1, 2, "ABNF_RULE", {ByteB}, PRIORITY_LOW)>>)]

MergeWhileBuilding ==
    /\ Len(transitions_) < MaxTransitions
    /\ MergeOneOf({SmallEmbedded})

NextBuild ==
    \/ AddState
    \/ SetStartState
    \/ AddAcceptState
    \/ AddTransition
    \/ AddEpsilonTransition
    \/ MergeWhileBuilding
    \/ SetStateEntryCallback
    \/ SetStateExitCallback
    \/ SetTransitionCallback

SpecBuild == InitBuild /\ [][NextBuild]_vars

(***************************************************************************)
(* C23: mergeEmbeddedFSM(from, to, inner) maps inner's start state to from  *)
(* and every inner accept state to to, gives every other inner state a      *)
(* distinct new outer state of type NORMAL, and adds for every inner        *)
(* transition u -> v exactly one outer transition m(u) -> m(v) of the same  *)
(* type, rule and priority; in particular every inner transition leaving    *)
(* inner's start state leaves from in the outer FSM.                        *)
(***************************************************************************)
\* The transitions of the second list whose ids the first list does not have.
AddedTransitions(before, after) ==
    {after[i] : i \in {k \in DOMAIN after :
                          \A j \in DOMAIN before : before[j].id # after[k].id}}

SameLabel(t, u) == t.type = u.type /\ t.rule = u.rule /\ t.priority = u.priority

\* m is a mapping of the inner states as the claim describes it.
IsMergeMapping(m, inner, from, to, before, after) ==
    /\ \A s \in DOMAIN m :
          IF s \in inner.accept_states_ THEN m[s] = to
          ELSE IF s = inner.start_state_ THEN m[s] = from
          ELSE /\ m[s] \notin DOMAIN before
               /\ after[m[s]] = "NORMAL"
               /\ \A s2 \in DOMAIN m : m[s2] = m[s] => s2 = s
    /\ DOMAIN after \ DOMAIN before =
          {m[s] : s \in DOMAIN m \ ({inner.start_state_} \cup inner.accept_states_)}

\* Transition i of inner is the i-th added transition, between the mapped states.
AddedAsMapped(m, inner, first_id, added) ==
    /\ Cardinality(added) = Len(inner.transitions_)
    /\ \A i \in DOMAIN inner.transitions_ :
          \E t \in added :
              /\ t.id = first_id + i - 1
              /\ t.from = m[inner.transitions_[i].from]
              /\ t.to = m[inner.transitions_[i].to]
              /\ SameLabel(t, inner.transitions_[i])

MergeReturned == call'.op = "mergeEmbeddedFSM" /\ call'.ret = "OK"

C23_StartLeavesFrom ==
    [][MergeReturned =>
          \A i \in DOMAIN call'.embedded_fsm.transitions_ :
              \E t \in {call'.embedded_fsm.transitions_[i]} :
                  t.from = call'.embedded_fsm.start_state_ =>
                      \E u \in AddedTransitions(transitions_, transitions_') :
                          /\ u.id = next_transition_id_ + i - 1
                          /\ u.from = call'.from
                          /\ SameLabel(u, t)]_vars

\* What the code does keep: when inner's start state is not an accept state
\* (or from = to) the merge is the one the claim describes.
C23_MappingUnlessStartAccepts ==
    [][(/\ MergeReturned
        /\ \/ call'.embedded_fsm.start_state_ \notin call'.embedded_fsm.accept_states_
           \/ call'.from = call'.to) =>
          \E m \in [DOMAIN call'.embedded_fsm.states_ -> DOMAIN states_'] :
              /\ IsMergeMapping(m, call'.embedded_fsm, call'.from, call'.to,
                                states_, states_')
              /\ AddedAsMapped(m, call'.embedded_fsm, next_transition_id_,
                               AddedTransitions(transitions_, transitions_'))]_vars

\* Inner's start state is an accept state: its transitions leave to.
C23_StartMappedToTo ==
    [][(MergeReturned /\ call'.embedded_fsm.start_state_ \in call'.embedded_fsm.accept_states_) =>
          \A i \in DOMAIN call'.embedded_fsm.transitions_ :
              \E t \in {call'.embedded_fsm.transitions_[i]} :
                  t.from = call'.embedded_fsm.start_state_ =>
                      \E u \in AddedTransitions(transitions_, transitions_') :
                          /\ u.id = next_transition_id_ + i - 1
                          /\ u.from = call'.to
                          /\ SameLabel(u, t)]_vars

(***************************************************************************)
(* C24: mergeEmbeddedFSM leaves the outer FSM's start state, accept set and *)
(* the states it had unchanged and keeps every transition it had (id,       *)
(* endpoints, type, rule, priority), wherever the final sort puts it; after *)
(* it the outer FSM has no FSM_INSTANCE transition.                         *)
(***************************************************************************)
\* Every transition of the first list is in the second list exactly once.
KeptOnce(before, after) ==
    \A i \in DOMAIN before :
        Cardinality({k \in DOMAIN after : after[k] = before[i]}) = 1

ThrowingCalls ==
    {"addTransition", "addEpsilonTransition", "mergeEmbeddedFSM", "setStartState",
     "addAcceptState", "setStateEntryCallback", "setStateExitCallback",
     "setTransitionCallback"}

C25_ThrowLeavesUnchanged ==
    [][(call'.op \in ThrowingCalls /\ call'.ret = "THROW") =>
          UNCHANGED <<states_, transitions_, start_state_, accept_states_,
                      next_state_id_, next_transition_id_,
                      on_entry, on_exit, on_transition, current_state_>>]_vars

\* addTransition has thrown on an FSM that has states, a start state and an
\* accept state.
C25_Witness ==
    /\ call.op = "addTransition" /\ call.ret = "THROW"
    /\ next_state_id_ > MaxStates
    /\ start_state_ = 1
    /\ accept_states_ # {}

(***************************************************************************)
(* Structural validation                                                    *)
(***************************************************************************)
\* The issues of validateStructure, in the order it pushes them; accepts is
\* the order in which the loop visits accept_states_.
RECURSIVE AcceptIssues(_, _)
AcceptIssues(g, accepts) ==
    IF accepts = <<>> THEN <<>>
    ELSE (IF ~hasState(g, Head(accepts)) THEN <<<<"Accept state does not exist", Head(accepts)>>>>
          ELSE <<>>) \o AcceptIssues(g, Tail(accepts))

RECURSIVE TransitionIssues(_, _)
TransitionIssues(g, ts) ==
    IF ts = <<>> THEN <<>>
    ELSE (IF ~hasState(g, Head(ts).from)
          THEN <<<<"Transition from non-existent state", Head(ts).from>>>> ELSE <<>>)
         \o (IF ~hasState(g, Head(ts).to)
             THEN <<<<"Transition to non-existent state", Head(ts).to>>>> ELSE <<>>)
         \o TransitionIssues(g, Tail(ts))

\* A validateStructure that looks at the source of each transition only.
ValidateSourcesOnly(g, accepts) ==
    (IF g.start_state_ = InvalidId \/ ~hasState(g, g.start_state_)
     THEN <<<<"No valid start state defined", InvalidId>>>> ELSE <<>>)
    \o (IF g.accept_states_ = {}
        THEN <<<<"No accept states defined", InvalidId>>>> ELSE <<>>)
    \o AcceptIssues(g, accepts)
    \o SelectSeq(TransitionIssues(g, g.transitions_),
                 LAMBDA issue : issue[1] = "Transition from non-existent state")

validateStructure(g, accepts) ==
    (IF g.start_state_ = InvalidId \/ ~hasState(g, g.start_state_)
     THEN <<<<"No valid start state defined", InvalidId>>>> ELSE <<>>)
    \o (IF g.accept_states_ = {}
        THEN <<<<"No accept states defined", InvalidId>>>> ELSE <<>>)
    \o AcceptIssues(g, accepts)
    \o TransitionIssues(g, g.transitions_)

isValid(g, accepts) == validateStructure(g, accepts) = <<>>

\* FSM(InitialConfig): the states, transitions, start state and accept states
\* are taken as given, whether or not the ids they name exist.
ConfigIds == {InvalidId, 1, MaxStates + 1}

ConfigPool ==
    << Edge(1, 2, "ABNF_RULE", {ByteA}, PRIORITY_NORMAL),
       Edge(MaxStates + 1, 1, "EPSILON", {}, PRIORITY_NORMAL) >>

InitConfig ==
    /\ \E ids \in SUBSET (1..MaxStates) :
          /\ states_ = [s \in ids |-> "NORMAL"]
          /\ next_state_id_ = IF ids = {} THEN 1 ELSE MaxOf(ids) + 1
          /\ on_entry = [s \in ids |-> "none"]
          /\ on_exit = [s \in ids |-> "none"]
    /\ \E keep \in SUBSET (1..Len(ConfigPool)) :
          transitions_ = WithIds(SubSeq2(ConfigPool, keep))
    /\ next_transition_id_ = Len(transitions_) + 1
    /\ on_transition = [id \in 1..Len(transitions_) |-> "none"]
    /\ transition_map_ = <<>>
    /\ transition_map_dirty_ = TRUE
    /\ start_state_ \in ConfigIds
    /\ current_state_ = start_state_
    /\ accept_states_ \in SUBSET (ConfigIds \ {InvalidId})
    /\ debug_flags \in FlagSets
    /\ max_backtrack_depth_ = 0
    /\ is_choice_point = {}
    /\ last_error_ = NoError
    /\ trace_ = <<>>
    /\ metrics_ = ZeroMetrics
    /\ captures_ = <<>>
    /\ active_captures_ = <<>>
    /\ current_input_position_ = 0
    /\ current_input_ = <<>>
    /\ stream_state_ = "READY"
    /\ streaming_mode_ = FALSE
    /\ choice_stack_ = <<>>
    /\ backtracking_stats_ = ZeroStats
    /\ client_input = <<>>
    /\ call = [op |-> "construct", ret |-> "none"]
    /\ history = <<>>
    /\ user_data_ = <<>>
    /\ abnf = <<>>

ValidateStructure ==
    /\ \E accepts \in Orders(accept_states_) :
          call' = [op |-> "validateStructure", ret |-> validateStructure(Graph, accepts)]
    /\ UNCHANGED <<graphVars, execVars, client_input, history, user_data_, abnf>>

IsValid ==
    /\ \E accepts \in Orders(accept_states_) :
          call' = [op |-> "isValid", ret |-> isValid(Graph, accepts)]
    /\ UNCHANGED <<graphVars, execVars, client_input, history, user_data_, abnf>>

NextStructure ==
    \/ AddState
    \/ SetStartState
    \/ AddAcceptState
    \/ AddTransition
    \/ AddEpsilonTransition
    \/ ValidateStructure
    \/ IsValid

SpecStructure == (InitBuild \/ InitConfig) /\ [][NextStructure]_vars

(***************************************************************************)
(* C26: validateStructure reports an issue exactly for: a start state that  *)
(* is unset or not a state; an empty accept set; each accept state that is  *)
(* not a state; each transition endpoint that is not a state.  isValid is   *)
(* true iff there is no such issue.  An FSM built only through addState,    *)
(* setStartState, addAcceptState, addTransition and addEpsilonTransition    *)
(* has no accept state and no transition endpoint that is not a state.      *)
(***************************************************************************)
\* How often the issue is in the list.
Occurrences(issues, issue) == Cardinality({i \in DOMAIN issues : issues[i] = issue})

StartMissing == start_state_ = InvalidId \/ start_state_ \notin DOMAIN states_

AbsentAccepts == accept_states_ \ DOMAIN states_

AbsentFrom(s) == {i \in DOMAIN transitions_ : transitions_[i].from = s /\ s \notin DOMAIN states_}

AbsentTo(s) == {i \in DOMAIN transitions_ : transitions_[i].to = s /\ s \notin DOMAIN states_}

NothingAbsent ==
    /\ AbsentAccepts = {}
    /\ \A s \in 0..(MaxStates + 2) : AbsentFrom(s) = {} /\ AbsentTo(s) = {}

C26_Issues ==
    call.op = "validateStructure" =>
        /\ Occurrences(call.ret, <<"No valid start state defined", InvalidId>>) =
              (IF StartMissing THEN 1 ELSE 0)
        /\ Occurrences(call.ret, <<"No accept states defined", InvalidId>>) =
              (IF accept_states_ = {} THEN 1 ELSE 0)
        /\ \A s \in 0..(MaxStates + 2) :
              /\ Occurrences(call.ret, <<"Accept state does not exist", s>>) =
                    (IF s \in AbsentAccepts THEN 1 ELSE 0)
              /\ Occurrences(call.ret, <<"Transition from non-existent state", s>>) =
                    Cardinality(AbsentFrom(s))
              /\ Occurrences(call.ret, <<"Transition to non-existent state", s>>) =
                    Cardinality(AbsentTo(s))
        /\ Len(call.ret) =
              (IF StartMissing THEN 1 ELSE 0) + (IF accept_states_ = {} THEN 1 ELSE 0)
              + Cardinality(AbsentAccepts)
              + Cardinality({i \in DOMAIN transitions_ : transitions_[i].from \notin DOMAIN states_})
              + Cardinality({i \in DOMAIN transitions_ : transitions_[i].to \notin DOMAIN states_})

C26_IsValid ==
    call.op = "isValid" =>
        (call.ret <=> (~StartMissing /\ accept_states_ # {} /\ NothingAbsent))

\* FSM() has nothing absent, and the five building calls keep it so.
C26_BuiltHasNothingAbsent ==
    /\ (call.op = "construct" /\ states_ = <<>> /\ transitions_ = <<>>
        /\ accept_states_ = {}) => NothingAbsent
    /\ (call'.op \in {"addState", "setStartState", "addAcceptState", "addTransition",
                      "addEpsilonTransition"} /\ NothingAbsent) => NothingAbsent'

C26_ValidateStructure == [](C26_Issues /\ C26_IsValid) /\ [][C26_BuiltHasNothingAbsent]_vars

\* validateStructure has reported a missing start state, an absent accept
\* state and an absent endpoint at once.
C26_Witness ==
    /\ call.op = "validateStructure"
    /\ StartMissing
    /\ AbsentAccepts # {}
    /\ \E s \in 0..(MaxStates + 2) : AbsentTo(s) # {}
    /\ Len(call.ret) >= 3

(***************************************************************************)
(* Transitions of equal priority                                            *)
(***************************************************************************)
\* The lists rebuildTransitionMap can leave for the states: for each state
\* its transitions in an order std::sort can produce.
SortedFrom(ts, s) == sortTransitionsByPriority(SelectSeq(ts, LAMBDA t : t.from = s))

rebuildTransitionMapAnyOrder(ts) ==
    {m \in [States -> UNION {SortedFrom(ts, s) : s \in States}] :
        \A s \in States : m[s] \in SortedFrom(ts, s)}

\* Candidate edges with two transitions of equal priority on the same byte.
TiePool ==
    << Edge(1, 2, "ABNF_RULE", {ByteA}, PRIORITY_NORMAL),
       Edge(1, 3, "ABNF_RULE", {ByteA}, PRIORITY_NORMAL),
       Edge(2, 2, "ABNF_RULE", {ByteB}, PRIORITY_HIGH),
       Edge(2, 3, "ABNF_RULE", {ByteB}, PRIORITY_HIGH),
       Edge(3, 3, "ABNF_RULE", {ByteA, ByteB}, PRIORITY_LOW) >>

InitTies ==
    /\ \E keep \in SUBSET (1..Len(TiePool)) : transitions_ = WithIds(SubSeq2(TiePool, keep))
    /\ transition_map_ \in rebuildTransitionMapAnyOrder(transitions_)
    /\ transition_map_dirty_ = FALSE
    /\ accept_states_ \in AcceptSets
    /\ states_ = [s \in States |-> StateTypeOf(s, 1, accept_states_)]
    /\ next_state_id_ = Cardinality(States) + 1
    /\ next_transition_id_ = Len(transitions_) + 1
    /\ on_entry = NoCallbacks
    /\ on_exit = NoCallbacks
    /\ on_transition = [id \in 1..Len(transitions_) |-> "none"]
    /\ debug_flags \in FlagSets
    /\ max_backtrack_depth_ = 0
    /\ is_choice_point = {}
    /\ start_state_ = 1
    /\ current_state_ = 1
    /\ last_error_ = NoError
    /\ trace_ = <<>>
    /\ metrics_ = ZeroMetrics
    /\ captures_ = <<>>
    /\ active_captures_ = <<>>
    /\ current_input_position_ = 0
    /\ current_input_ = <<>>
    /\ stream_state_ = "READY"
    /\ streaming_mode_ = FALSE
    /\ choice_stack_ = <<>>
    /\ backtracking_stats_ = ZeroStats
    /\ client_input \in Inputs
    /\ call = [op |-> "construct", ret |-> "none"]
    /\ history = <<>>
    /\ user_data_ = <<>>
    /\ abnf = <<>>

SpecTies == InitTies /\ [][NextBacktrack]_vars

(***************************************************************************)
(* C27: among the CLASS transitions of equal priority out of a state that   *)
(* admit the byte, the one added first is the one greedy validate takes and *)
(* the first one validateWithBacktracking tries.                            *)
(***************************************************************************)
C27_GreedyTakesFirstAdded ==
    AfterValidate =>
        \A k \in 1..Len(ByteEntries) :
            \E e \in {ByteEntries[k]} :
                \A u \in Admitting(e.from_state, e.input_char) :
                    u.priority = transitions_[e.transition_id].priority =>
                        e.transition_id <= u.id

C27_BacktrackingTriesFirstAdded ==
    call.op = "validateWithBacktracking" =>
        \A j \in Steps :
            \E valid \in {history[j].valid} :
                \A i \in DOMAIN valid :
                    valid[i].priority = valid[1].priority => valid[1].id <= valid[i].id

C27_FirstAddedWins == C27_GreedyTakesFirstAdded /\ C27_BacktrackingTriesFirstAdded

(***************************************************************************)
(* Class ABNF: a set of bytes                                               *)
(***************************************************************************)
Octets == 0..255

\* ABNF(): std::bitset<256> with no bit set.  The description string of an
\* ABNF object is left out.
EmptyABNF == [char_set_ |-> [i \in Octets |-> FALSE]]

setBit(c, value) == [c EXCEPT !.char_set_[value] = TRUE]

\* for (unsigned int i = start; i <= end; ++i) char_set_.set(i);
\* sets every bit i with start <= i <= end, none when start > end.
setRange(c, start, end) ==
    [c EXCEPT !.char_set_ = [i \in Octets |-> @[i] \/ (start <= i /\ i <= end)]]

\* static_cast<uint8_t> of a char.
ToByte(ch) == ch % 256

\* The value of the char that holds the byte, where char is signed or not.
ToChar(byte, char_is_signed) ==
    IF char_is_signed /\ byte >= 128 THEN byte - 256 ELSE byte

\* ABNF(char start, char end)
RangeOfChars(start, end) ==
    IF start > end THEN Thrown(EmptyABNF)
    ELSE Ok(setRange(EmptyABNF, ToByte(start), ToByte(end)))

\* ABNF(uint8_t start, uint8_t end)
RangeOfBytes(start, end) ==
    IF start > end THEN Thrown(EmptyABNF)
    ELSE Ok(setRange(EmptyABNF, start, end))

CoreRules ==
    {"ALPHA", "BIT", "CHAR", "CR", "CRLF", "CTL", "DIGIT", "DQUOTE", "HEXDIG", "HTAB",
     "LF", "LWSP", "OCTET", "SP", "VCHAR", "WSP"}

\* (mutation) HEXDIG as RFC 2234 defines it, without a-f.
CoreRuleUpperHex(rule) ==
    IF rule = "HEXDIG" THEN setRange(setRange(EmptyABNF, 48, 57), 65, 70)
    ELSE IF rule = "ALPHA" THEN setRange(setRange(EmptyABNF, 65, 90), 97, 122)
    ELSE EmptyABNF

initFromCoreRule(rule) ==
    CASE rule = "ALPHA"  -> setRange(setRange(EmptyABNF, 65, 90), 97, 122)
      [] rule = "BIT"    -> setBit(setBit(EmptyABNF, 48), 49)
      [] rule = "CHAR"   -> setRange(EmptyABNF, 1, 127)
      [] rule = "CR"     -> setBit(EmptyABNF, 13)
      [] rule = "CRLF"   -> setBit(setBit(EmptyABNF, 13), 10)
      [] rule = "CTL"    -> setBit(setRange(EmptyABNF, 0, 31), 127)
      [] rule = "DIGIT"  -> setRange(EmptyABNF, 48, 57)
      [] rule = "DQUOTE" -> setBit(EmptyABNF, 34)
      [] rule = "HEXDIG" -> setRange(setRange(setRange(EmptyABNF, 48, 57), 65, 70), 97, 102)
      [] rule = "HTAB"   -> setBit(EmptyABNF, 9)
      [] rule = "LF"     -> setBit(EmptyABNF, 10)
      [] rule = "LWSP"   -> setBit(setBit(EmptyABNF, 32), 9)
      [] rule = "OCTET"  -> setRange(EmptyABNF, 0, 255)
      [] rule = "SP"     -> setBit(EmptyABNF, 32)
      [] rule = "VCHAR"  -> setRange(EmptyABNF, 33, 126)
      [] rule = "WSP"    -> setBit(setBit(EmptyABNF, 32), 9)

matches(c, value) == c.char_set_[value]

unionWith(c, other) ==
    [char_set_ |-> [i \in Octets |-> c.char_set_[i] \/ other.char_set_[i]]]

intersectWith(c, other) ==
    [char_set_ |-> [i \in Octets |-> c.char_set_[i] /\ other.char_set_[i]]]

\* (mutation) a complement that flips the 7-bit bytes only.
ComplementAscii(c) ==
    [char_set_ |-> [i \in Octets |-> IF i < 128 THEN ~c.char_set_[i] ELSE c.char_set_[i]]]

complement(c) == [char_set_ |-> [i \in Octets |-> ~c.char_set_[i]]]

\* char_set_.none()
isEmpty(c) == \A i \in Octets : ~c.char_set_[i]

\* char_set_.count()
count(c) == Cardinality({i \in Octets : c.char_set_[i]})

\* An FSM plays no part in the runs of class ABNF.
NoFSM ==
    /\ states_ = <<>>
    /\ next_state_id_ = 1
    /\ next_transition_id_ = 1
    /\ transitions_ = <<>>
    /\ transition_map_ = <<>>
    /\ transition_map_dirty_ = TRUE
    /\ accept_states_ = {}
    /\ on_entry = <<>>
    /\ on_exit = <<>>
    /\ on_transition = <<>>
    /\ debug_flags \in FlagSets
    /\ max_backtrack_depth_ = 0
    /\ is_choice_point = {}
    /\ start_state_ = InvalidId
    /\ current_state_ = InvalidId
    /\ last_error_ = NoError
    /\ trace_ = <<>>
    /\ metrics_ = ZeroMetrics
    /\ captures_ = <<>>
    /\ active_captures_ = <<>>
    /\ current_input_position_ = 0
    /\ current_input_ = <<>>
    /\ stream_state_ = "READY"
    /\ streaming_mode_ = FALSE
    /\ choice_stack_ = <<>>
    /\ backtracking_stats_ = ZeroStats
    /\ client_input = <<>>
    /\ history = <<>>
    /\ user_data_ = <<>>

fsmVars == <<graphVars, execVars, client_input, history, user_data_>>

\* The ends of the ranges the client builds classes from.
RangeEnds == {0, 65, 127, 128, 255}

\* The classes the client starts from: none, the core rules, ranges.
Classes ==
    {EmptyABNF} \cup {initFromCoreRule(rule) : rule \in CoreRules}
    \cup {RangeOfBytes(start, end).m : start \in RangeEnds, end \in RangeEnds}

\* The client holds two ABNF objects a and b.
InitAbnf ==
    /\ NoFSM
    /\ abnf \in [a : Classes, b : Classes]
    /\ call = [op |-> "construct", ret |-> "none"]

\* a = ABNF(rule)
FromCoreRule ==
    /\ \E rule \in CoreRules :
          /\ abnf' = [abnf EXCEPT !.a = initFromCoreRule(rule)]
          /\ call' = [op |-> "ABNF(CoreRule)", rule |-> rule]
    /\ UNCHANGED fsmVars

\* a = a.unionWith(b)
UnionWith ==
    /\ abnf' = [abnf EXCEPT !.a = unionWith(abnf.a, abnf.b)]
    /\ call' = [op |-> "unionWith"]
    /\ UNCHANGED fsmVars

\* a = a.intersectWith(b)
IntersectWith ==
    /\ abnf' = [abnf EXCEPT !.a = intersectWith(abnf.a, abnf.b)]
    /\ call' = [op |-> "intersectWith"]
    /\ UNCHANGED fsmVars

\* a = a.complement()
Complement ==
    /\ abnf' = [abnf EXCEPT !.a = complement(abnf.a)]
    /\ call' = [op |-> "complement"]
    /\ UNCHANGED fsmVars

NextAbnf == FromCoreRule \/ UnionWith \/ IntersectWith \/ Complement

SpecAbnf == InitAbnf /\ [][NextAbnf]_vars

(***************************************************************************)
(* C28: for every class and every byte x in 0..255 the class operations are *)
(* element-wise: complement(c) contains x iff c does not, the union of a    *)
(* and b contains x iff a or b does, the intersection iff a and b do; so    *)
(* the complement of the complement is the class itself, the complement     *)
(* has 256 - count(c) bytes, and isEmpty(c) iff count(c) = 0.               *)
(***************************************************************************)
C28_Objects ==
    \A c \in {abnf.a, abnf.b} :
        /\ complement(complement(c)).char_set_ = c.char_set_
        /\ count(complement(c)) = 256 - count(c)
        /\ isEmpty(c) <=> count(c) = 0

C28_Operation ==
    /\ call'.op = "complement" =>
          /\ \A x \in Octets : matches(abnf'.a, x) <=> ~matches(abnf.a, x)
          /\ count(abnf'.a) = 256 - count(abnf.a)
    /\ call'.op = "unionWith" =>
          \A x \in Octets : matches(abnf'.a, x) <=> (matches(abnf.a, x) \/ matches(abnf.b, x))
    /\ call'.op = "intersectWith" =>
          \A x \in Octets : matches(abnf'.a, x) <=> (matches(abnf.a, x) /\ matches(abnf.b, x))

C28_ElementWise == []C28_Objects /\ [][C28_Operation]_vars

\* a.complement() was called and a has bytes at and above 0x80 in it and
\* out of it.
C28_Witness ==
    /\ call.op = "complement"
    /\ \E x \in Octets : x >= 128 /\ matches(abnf.a, x)
    /\ \E x \in Octets : x >= 128 /\ ~matches(abnf.a, x)
    /\ \E x \in Octets : x < 128 /\ ~matches(abnf.a, x)
    /\ ~isEmpty(abnf.b)

(***************************************************************************)
(* C29: each core rule of RFC 2234 contains exactly the bytes of the table: *)
(* ALPHA 0x41-0x5A, 0x61-0x7A; BIT 0x30, 0x31; CHAR 0x01-0x7F; CR 0x0D;     *)
(* LF 0x0A; CRLF 0x0D, 0x0A; CTL 0x00-0x1F, 0x7F; DIGIT 0x30-0x39; DQUOTE   *)
(* 0x22; HEXDIG 0x30-0x39, 0x41-0x46, 0x61-0x66; HTAB 0x09; LWSP 0x20,      *)
(* 0x09; OCTET 0x00-0xFF; SP 0x20; VCHAR 0x21-0x7E; WSP 0x20, 0x09.         *)
(***************************************************************************)
CoreRuleTable(rule) ==
    CASE rule = "ALPHA"  -> (65..90) \cup (97..122)
      [] rule = "BIT"    -> {48, 49}
      [] rule = "CHAR"   -> 1..127
      [] rule = "CR"     -> {13}
      [] rule = "LF"     -> {10}
      [] rule = "CRLF"   -> {13, 10}
      [] rule = "CTL"    -> (0..31) \cup {127}
      [] rule = "DIGIT"  -> 48..57
      [] rule = "DQUOTE" -> {34}
      [] rule = "HEXDIG" -> (48..57) \cup (65..70) \cup (97..102)
      [] rule = "HTAB"   -> {9}
      [] rule = "LWSP"   -> {32, 9}
      [] rule = "OCTET"  -> 0..255
      [] rule = "SP"     -> {32}
      [] rule = "VCHAR"  -> 33..126
      [] rule = "WSP"    -> {32, 9}

C29_CoreRules ==
    call.op = "ABNF(CoreRule)" =>
        {x \in Octets : matches(abnf.a, x)} = CoreRuleTable(call.rule)

\* a was built as HEXDIG.
C29_Witness ==
    /\ call.op = "ABNF(CoreRule)"
    /\ call.rule = "HEXDIG"
    /\ count(abnf.a) = 22

(***************************************************************************)
(* The range constructors                                                   *)
(***************************************************************************)
\* The client holds two bytes, start and end.
InitRange ==
    /\ NoFSM
    /\ abnf \in [start : Octets, end : Octets]
    /\ call = [op |-> "construct", ret |-> "none"]

\* ABNF(char, char) on the chars that hold the two bytes; whether char is
\* signed is the compiler's choice.
ConstructRangeOfChars ==
    /\ \E char_is_signed \in BOOLEAN :
          call' = [op |-> "ABNF(char, char)", char_is_signed |-> char_is_signed,
                   ret |-> RangeOfChars(ToChar(abnf.start, char_is_signed),
                                        ToChar(abnf.end, char_is_signed))]
    /\ UNCHANGED <<fsmVars, abnf>>

ConstructRangeOfBytes ==
    /\ call' = [op |-> "ABNF(uint8_t, uint8_t)", ret |-> RangeOfBytes(abnf.start, abnf.end)]
    /\ UNCHANGED <<fsmVars, abnf>>

NextRange == ConstructRangeOfChars \/ ConstructRangeOfBytes

SpecRange == InitRange /\ [][NextRange]_vars

(***************************************************************************)
(* C30: a range constructor throws exactly when start > end as bytes        *)
(* 0..255; for start <= end (the char and the uint8_t overload, bytes at    *)
(* and above 0x80 included) it returns the class of exactly the bytes       *)
(* start..end, whose count is end - start + 1.                              *)
(***************************************************************************)
RangeAsClaimed(r) ==
    IF abnf.start > abnf.end THEN r.thrown
    ELSE /\ ~r.thrown
         /\ {x \in Octets : matches(r.m, x)} = abnf.start..abnf.end
         /\ count(r.m) = abnf.end - abnf.start + 1

C30_RangeOfBytes == call.op = "ABNF(uint8_t, uint8_t)" => RangeAsClaimed(call.ret)

C30_RangeOfChars == call.op = "ABNF(char, char)" => RangeAsClaimed(call.ret)

C30_Range == C30_RangeOfBytes /\ C30_RangeOfChars

\* Where char is unsigned, and for bytes on the same side of 0x80, the char
\* overload is as claimed.
C30_RangeOfCharsSameSign ==
    (/\ call.op = "ABNF(char, char)"
     /\ (~call.char_is_signed \/ (abnf.start >= 128 <=> abnf.end >= 128))) =>
        RangeAsClaimed(call.ret)

(***************************************************************************)
(* C31: on a graph where no state has two CLASS transitions admitting the   *)
(* same byte, validateWithBacktracking(x) returns what validate(x) returns  *)
(* and ends in the same current state, for every input x, with              *)
(* choice_points_created = 0 and backtracks_performed = 0.                  *)
(***************************************************************************)
Unambiguous ==
    \A s \in States, ch \in Alphabet : Cardinality(Admitting(s, ch)) <= 1

C31_SameAsGreedy ==
    Unambiguous =>
        \A v \in {validate(Self, client_input)} :
            \A w \in {validateWithBacktracking(Self, client_input)} :
                /\ w.ret = v.ret
                /\ w.m.current_state_ = v.m.current_state_
                /\ w.m.backtracking_stats_.choice_points_created = 0
                /\ w.m.backtracking_stats_.backtracks_performed = 0

C31_Witness ==
    /\ Unambiguous
    /\ call.op = "validateWithBacktracking"
    /\ call.ret = "TRUE"
    /\ Len(client_input) = MaxLen
    /\ current_state_ # start_state_
    /\ current_state_ \in is_choice_point \/ start_state_ \in is_choice_point
    /\ backtracking_stats_.choice_points_created = 0

(***************************************************************************)
(* C32: after validate or validateWithBacktracking returns, last_error_     *)
(* holds an error exactly when the call returned false; after feed or       *)
(* endOfStream returns ERROR it holds an error; the error kept is the one   *)
(* of the most recent call, whatever error was held before, and reset()     *)
(* empties the slot.                                                        *)
(***************************************************************************)
HasError == last_error_ # NoError

\* The FSM as it would be had no error been recorded before.
Forgetting == [Self EXCEPT !.last_error_ = NoError]

C32_ErrorIffFalse ==
    /\ call.op \in {"validate", "validateWithBacktracking"}
    /\ call.ret \in {"TRUE", "FALSE"}
    => (HasError <=> call.ret = "FALSE")

C32_ErrorWhenStreamError ==
    /\ call.op \in {"feed", "feedChunk", "endOfStream"}
    /\ call.ret = "ERROR"
    => HasError

C32_ResetEmpties == call.op = "reset" => ~HasError

\* Without a recorded error Forgetting is Self, so only the states that hold
\* one are compared.
C32_MostRecentOnly ==
    HasError =>
        /\ validate(Self, client_input).m.last_error_
              = validate(Forgetting, client_input).m.last_error_
        /\ validateWithBacktracking(Self, client_input).m.last_error_
              = validateWithBacktracking(Forgetting, client_input).m.last_error_
        /\ \A ch \in Alphabet :
              \E r \in {feed(Self, ch)} :
                  r.ret = "ERROR" => r.m.last_error_ = feed(Forgetting, ch).m.last_error_
        /\ \E r \in {endOfStream(Self)} :
              r.ret = "ERROR" => r.m.last_error_ = endOfStream(Forgetting).m.last_error_

C32_LastError ==
    /\ C32_ErrorIffFalse
    /\ C32_ErrorWhenStreamError
    /\ C32_ResetEmpties
    /\ C32_MostRecentOnly

\* After a stream that failed, a run that succeeds holds no error and a run
\* that fails holds its own.
C32_Witness ==
    /\ HasError
    /\ call.op = "endOfStream"
    /\ call.ret = "ERROR"
    /\ last_error_.type = "NOT_IN_ACCEPT_STATE"
    /\ current_input_ # <<>>
    /\ validate(Self, client_input).ret = "TRUE"
    /\ validate(Self, client_input).m.last_error_ = NoError
    /\ validateWithBacktracking(Self, <<ByteB>>).m.last_error_
          = ValidationError("NOT_IN_ACCEPT_STATE", 1, NUL, 1)

(***************************************************************************)
(* The transition index: rebuildTransitionMap and getTransitionsFrom        *)
(***************************************************************************)
\* The maps rebuildTransitionMap can leave: a list for every state that is
\* the source of a transition, in an order std::sort can produce.
RebuiltMaps(ts) ==
    LET sources == {ts[i].from : i \in DOMAIN ts}
    IN  {m \in [sources -> UNION {SortedFrom(ts, s) : s \in sources}] :
            \A s \in sources : m[s] \in SortedFrom(ts, s)}

\* (mutation) the index is rebuilt only when it is empty.
GetTransitionsFromStale(state) ==
    /\ IF transition_map_ = <<>>
       THEN transition_map_' \in RebuiltMaps(transitions_)
       ELSE transition_map_' = transition_map_
    /\ transition_map_dirty_' = FALSE
    /\ call' = [op |-> "getTransitionsFrom", state |-> state,
                ret |-> IF state \in DOMAIN transition_map_'
                        THEN transition_map_'[state] ELSE <<>>]

\* getTransitionsFrom(state): rebuildTransitionMap(), which returns at once
\* unless transition_map_dirty_ is set, then the list found for the state.
GetTransitionsFromState(state) ==
    /\ IF transition_map_dirty_
       THEN transition_map_' \in RebuiltMaps(transitions_)
       ELSE transition_map_' = transition_map_
    /\ transition_map_dirty_' = FALSE
    /\ call' = [op |-> "getTransitionsFrom", state |-> state,
                ret |-> IF state \in DOMAIN transition_map_'
                        THEN transition_map_'[state] ELSE <<>>]

GetTransitionsFrom ==
    /\ \E state \in 1..next_state_id_ : GetTransitionsFromState(state)
    /\ UNCHANGED <<states_, next_state_id_, next_transition_id_, transitions_,
                   accept_states_, on_entry, on_exit, on_transition, debug_flags,
                   max_backtrack_depth_, is_choice_point, execVars, client_input,
                   history, user_data_, abnf>>

\* The client adds transitions of several priorities between its two states,
\* from one to the other.
IndexBound == MaxTransitions + 2

IndexStates == {1, 2}

Other(state) == CHOOSE s \in IndexStates : s # state

AddTransitionOfPriority ==
    /\ Len(transitions_) < IndexBound
    /\ \E from \in DOMAIN states_, priority \in {PRIORITY_LOW, PRIORITY_HIGH} :
          \E r \in {addTransition(Graph, from, Other(from), {ByteA}, priority)} :
              InstallGraph(r.m) /\ call' = [op |-> "addTransition", ret |-> Returned(r)]

AddEpsilonTransitionToNext ==
    /\ Len(transitions_) < IndexBound
    /\ \E from \in DOMAIN states_ :
          \E r \in {addEpsilonTransition(Graph, from, Other(from))} :
              InstallGraph(r.m)
              /\ call' = [op |-> "addEpsilonTransition", ret |-> Returned(r)]

MergeSmallEmbedded ==
    /\ Len(transitions_) < IndexBound
    /\ \E from \in DOMAIN states_, embedded_fsm \in {SmallEmbedded} :
          \E r \in {mergeEmbeddedFSM(Graph, from, Other(from), embedded_fsm, <<>>)} :
              \E sorted \in sortTransitionsByPriority(r.m.transitions_) :
                  /\ InstallGraph([r.m EXCEPT !.transitions_ = sorted,
                                              !.transition_map_dirty_ = TRUE])
                  /\ call' = [op |-> "mergeEmbeddedFSM", ret |-> Returned(r),
                              from |-> from, to |-> Other(from),
                              embedded_fsm |-> embedded_fsm]

\* FSM() followed by two calls of addState.
InitIndex ==
    /\ states_ = [s \in IndexStates |-> "NORMAL"]
    /\ next_state_id_ = Cardinality(IndexStates) + 1
    /\ next_transition_id_ = 1
    /\ transitions_ = <<>>
    /\ transition_map_ = <<>>
    /\ transition_map_dirty_ = TRUE
    /\ accept_states_ = {}
    /\ on_entry = [s \in IndexStates |-> "none"]
    /\ on_exit = [s \in IndexStates |-> "none"]
    /\ on_transition = <<>>
    /\ debug_flags = {}
    /\ max_backtrack_depth_ = 0
    /\ is_choice_point = {}
    /\ start_state_ = InvalidId
    /\ current_state_ = InvalidId
    /\ last_error_ = NoError
    /\ trace_ = <<>>
    /\ metrics_ = ZeroMetrics
    /\ captures_ = <<>>
    /\ active_captures_ = <<>>
    /\ current_input_position_ = 0
    /\ current_input_ = <<>>
    /\ stream_state_ = "READY"
    /\ streaming_mode_ = FALSE
    /\ choice_stack_ = <<>>
    /\ backtracking_stats_ = ZeroStats
    /\ client_input = <<>>
    /\ call = [op |-> "construct", ret |-> "none"]
    /\ history = <<>>
    /\ user_data_ = <<>>
    /\ abnf = <<>>

NextIndex ==
    \/ AddTransitionOfPriority
    \/ AddEpsilonTransitionToNext
    \/ MergeSmallEmbedded
    \/ GetTransitionsFrom

SpecIndex == InitIndex /\ [][NextIndex]_vars

(***************************************************************************)
(* C33: after any sequence of addTransition, addEpsilonTransition and       *)
(* mergeEmbeddedFSM calls, getTransitionsFrom(s) returns exactly the        *)
(* transitions whose source is s, each once, none stale and none missing,   *)
(* in order of non-increasing priority; a second rebuild of the index       *)
(* leaves what the first one built.                                         *)
(***************************************************************************)
\* list holds exactly the transitions of ts with source s, each once.
ExactlyFrom(list, ts, s) ==
    /\ \A i \in DOMAIN list : \E j \in DOMAIN ts : ts[j] = list[i] /\ ts[j].from = s
    /\ \A j \in DOMAIN ts : ts[j].from = s => \E i \in DOMAIN list : list[i] = ts[j]
    /\ \A i, k \in DOMAIN list : i # k => list[i].id # list[k].id

NonIncreasing(list) ==
    \A i, k \in DOMAIN list : i < k => list[i].priority >= list[k].priority

C33_LookupExact ==
    call.op = "getTransitionsFrom" =>
        /\ ExactlyFrom(call.ret, transitions_, call.state)
        /\ NonIncreasing(call.ret)

C33_RebuildTwice ==
    [][transition_map_dirty_ = FALSE /\ call'.op = "getTransitionsFrom"
          => transition_map_' = transition_map_]_vars

C33_Index == []C33_LookupExact /\ C33_RebuildTwice

C33_Witness ==
    /\ call.op = "getTransitionsFrom"
    /\ Len(call.ret) >= 2
    /\ Len(transitions_) > Len(call.ret)
    /\ call.ret[1].priority > call.ret[Len(call.ret)].priority
    /\ call.ret[1].id > call.ret[Len(call.ret)].id
    /\ \E i \in DOMAIN transitions_ : i > 1 /\ transitions_[i].id < transitions_[i - 1].id

(***************************************************************************)
(* C34: an epsilon closure follows one path: at each step it takes the      *)
(* first EPSILON edge, in the priority-ordered list of the state it is in,  *)
(* whose target it has not visited; it stops in a state whose EPSILON edges *)
(* all lead to visited states; it never moves along a CLASS edge; and the   *)
(* state it ends in depends on the graph and the state it starts in only,   *)
(* not on the input or the position.                                        *)
(***************************************************************************)
\* The k-th epsilon step of the trace took the first EPSILON edge of its
\* state's list that led out of the states visited before it.
FirstUnvisitedTaken(k) ==
    LET e == EpsilonEntries[k]
        visited == {StateAfterBytes} \cup {EpsilonEntries[j].to_state : j \in 1..(k - 1)}
        list == getTransitionsFrom(e.from_state)
    IN  /\ e.from_state = IF k = 1 THEN StateAfterBytes ELSE EpsilonEntries[k - 1].to_state
        /\ \E i \in DOMAIN list :
              /\ list[i].id = e.transition_id
              /\ list[i].type = "EPSILON"
              /\ list[i].to = e.to_state
              /\ e.to_state \notin visited
              /\ \A j \in 1..(i - 1) : list[j].type = "EPSILON" => list[j].to \in visited

\* The closure that ends validate was not left by an exception and ran with
\* its steps traced.
ClosureTraced ==
    /\ call.op = "validate"
    /\ call.ret \in {"TRUE", "FALSE"}
    /\ AllBytesConsumed
    /\ hasTraceTransitions

C34_SinglePath ==
    ClosureTraced =>
        /\ \A k \in 1..Len(EpsilonEntries) : FirstUnvisitedTaken(k)
        /\ current_state_ = IF EpsilonEntries = <<>> THEN StateAfterBytes
                            ELSE EpsilonEntries[Len(EpsilonEntries)].to_state
        /\ \A t \in TransitionSet :
              t.from = current_state_ /\ t.type = "EPSILON" => t.to \in ClosurePath

\* The closure from state s, run at the first or the last position of the
\* empty input or the client's, ends in the same state unless a callback throws.
C34_InputIndependent ==
    \A s \in States, x \in {<<>>, client_input}, position \in {0, MaxLen} :
        \A r \in {processEpsilonTransitions(
                     [Self EXCEPT !.current_state_ = s, !.current_input_ = x,
                                  !.current_input_position_ = position], position)} :
            ~r.thrown => r.m.current_state_ = ClosureEnd(s, {s})

C34_Closure == C34_SinglePath /\ C34_InputIndependent

C34_Witness ==
    /\ ClosureTraced
    /\ client_input # <<>>
    /\ Len(EpsilonEntries) >= 2
    /\ \E t \in TransitionSet :
          /\ t.from = EpsilonEntries[1].from_state
          /\ t.type = "EPSILON"
          /\ t.priority > transitions_[EpsilonEntries[1].transition_id].priority
    /\ \E t \in TransitionSet : t.from = current_state_ /\ t.type = "EPSILON"

(***************************************************************************)
(* Streams fed in chunks of any length                                      *)
(***************************************************************************)
\* feed(std::string_view chunk) with an empty chunk: the loop body never runs
\* and the call returns stream_state_ as it finds it.
FeedEmptyChunk ==
    /\ \E r \in {feedChunk(Self, <<>>)} :
          Install(r.m) /\ call' = [op |-> "feedChunk", ret |-> r.ret, chunk |-> <<>>]
    /\ UNCHANGED <<graphVars, client_input, abnf>>

NextStream ==
    \/ Validate
    \/ ValidateWithBacktracking
    \/ Feed
    \/ FeedChunk
    \/ FeedEmptyChunk
    \/ EndOfStream
    \/ Reset
    \/ ResetStream

SpecStream == Init /\ [][NextStream]_vars

(***************************************************************************)
(* C35: across any sequence of feed, endOfStream, reset, resetStream,       *)
(* validate and validateWithBacktracking, after a call has returned:        *)
(* stream_state_ = COMPLETE implies that current_state_ is an accept state, *)
(* stream_state_ = WAITING_FOR_INPUT implies that it is not, and            *)
(* stream_state_ is never PROCESSING.                                       *)
(***************************************************************************)
\* The last call returned to the client instead of leaving by an exception.
CallReturned == call.op # "construct" /\ call.ret # "THROW"

AcceptingEnds(x) ==
    {e \in {ClosureEnd(s, {s}) : s \in EndStates({start_state_}, x)} : isAcceptState(e)}

C36_BacktrackingSound ==
    (call.op = "validateWithBacktracking" /\ call.ret = "TRUE")
        => current_state_ \in AcceptingEnds(client_input)

\* Accepted after a backtrack, along a path that greedy validate does not take.
C36_Witness ==
    /\ call.op = "validateWithBacktracking"
    /\ call.ret = "TRUE"
    /\ backtracking_stats_.backtracks_performed > 0
    /\ Len(client_input) >= MaxLen
    /\ validate(Self, client_input).ret = "FALSE"
    /\ Cardinality(EndStates({start_state_}, client_input)) > 1

(***************************************************************************)
(* validateWithBacktracking, one loop iteration at a time                   *)
(***************************************************************************)
\* The FSM in the middle of a run: the log of the run so far is kept.
Running == [Self EXCEPT !.history = history, !.user_data_ = user_data_]

\* One iteration of while (position < input.size()).
LoopBody(m0, input, position) ==
    LET ch == input[position + 1]
    IN  Local(updateCapturePosition(m0, position), LAMBDA m :
        Local(getValidTransitions(m, ch), LAMBDA valid_transitions :
        IF valid_transitions = <<>>
        THEN Local(backtrack(m), LAMBDA b :
             IF ~b.found
             THEN [ret |-> "FALSE", position |-> position,
                   m |-> [b.m EXCEPT !.last_error_ =
                             ValidationError("NO_MATCHING_TRANSITION", position, ch,
                                             b.m.current_state_)]]
             ELSE Local(Top(b.m), LAMBDA cp :
                  Local([EraseFirstRemaining(Logged(b.m, RestoreEntry(b.m, cp))) EXCEPT
                            !.current_state_ = cp.remaining[1].to,
                            !.backtracking_stats_.paths_explored = @ + 1],
                        LAMBDA m1 :
                        [ret |-> "continue", position |-> cp.position + 1,
                         m |-> CountCharacter(
                                   [recordCharInCaptures(m1, ch) EXCEPT
                                       !.current_input_position_ = cp.position + 1])])))
        ELSE Local(IF shouldCreateChoicePoint(m, valid_transitions)
                   THEN saveChoicePoint(m, Tail(valid_transitions), position)
                   ELSE m, LAMBDA m1 :
             Local(TakeTransition(
                       [m1 EXCEPT !.backtracking_stats_.paths_explored = @ + 1],
                       valid_transitions[1], ch, position), LAMBDA r :
             Local(Logged(r.m, StepEntry(m, r.m, valid_transitions, position)),
                   LAMBDA m2 :
             IF r.thrown THEN [ret |-> "THROW", position |-> position, m |-> m2]
             ELSE [ret |-> "continue", position |-> position + 1,
                   m |-> CountCharacter(
                             [recordCharInCaptures(m2, ch) EXCEPT
                                 !.current_input_position_ = @ + 1])])))))

\* One iteration of while (backtrack()), up to the recursive call.
ResumeBody(m, input) ==
    Local(backtrack(m), LAMBDA b :
    IF ~b.found
    THEN [ret |-> "FALSE", m |-> NotInAcceptState(b.m, Len(input))]
    ELSE
    Local(Top(b.m), LAMBDA cp :
    Local([EraseFirstRemaining(Logged(b.m, RestoreEntry(b.m, cp))) EXCEPT
              !.backtracking_stats_.paths_explored = @ + 1,
              !.current_state_ = cp.remaining[1].to], LAMBDA m1 :
    IF cp.position + 1 >= Len(input)
    THEN Local(processEpsilonTransitions(m1, Len(input)), LAMBDA e :
               [ret |-> IF e.thrown THEN "THROW"
                        ELSE IF isInAcceptState(e.m) THEN "TRUE" ELSE "resume",
                m |-> e.m])
    ELSE [ret |-> "reenter", m |-> m1,
          remaining_input |-> SubSeq(input, cp.position + 2, Len(input))])))

\* The position of a run in the code of validateWithBacktracking.
At(pc, ret, input, position, frames) ==
    [op |-> "validateWithBacktracking", ret |-> ret, pc |-> pc, input |-> input,
     position |-> position, frames |-> frames]

InRun(pc) == call.op = "validateWithBacktracking" /\ call.ret = "running" /\ call.pc = pc

\* The entry of the function, for the client's call and for the recursive one.
EnterWith(m, input, frames) ==
    \E m1 \in {Begin(m, input)} :
        IF m1.start_state_ = InvalidId
        THEN Install(NoStartState(m1, 0, NUL))
             /\ call' = At("return", "running", input, 0, frames) @@ [result |-> "FALSE"]
        ELSE Install(m1) /\ call' = At("loop", "running", input, 0, frames)

Enter ==
    /\ call.ret # "running"
    /\ EnterWith(Self, client_input, <<>>)
    /\ UNCHANGED <<graphVars, client_input, abnf>>

LoopIteration ==
    /\ InRun("loop")
    /\ call.position < Len(call.input)
    /\ \E r \in {LoopBody(Running, call.input, call.position)} :
          /\ Install(r.m)
          /\ call' = IF r.ret = "continue"
                     THEN At("loop", "running", call.input, r.position, call.frames)
                     ELSE IF r.ret = "THROW"
                          THEN At("done", "THROW", call.input, r.position, call.frames)
                          ELSE At("return", "running", call.input, r.position, call.frames)
                               @@ [result |-> r.ret]
    /\ UNCHANGED <<graphVars, client_input, abnf>>

\* The code between the two loops.
InputConsumed ==
    /\ InRun("loop")
    /\ call.position >= Len(call.input)
    /\ \E e \in {FinalClosure(Running, Len(call.input))} :
          /\ Install(e.m)
          /\ call' = IF e.thrown
                     THEN At("done", "THROW", call.input, call.position, call.frames)
                     ELSE IF isInAcceptState(e.m)
                          THEN At("return", "running", call.input, call.position, call.frames)
                               @@ [result |-> "TRUE"]
                          ELSE At("resume", "running", call.input, call.position, call.frames)
    /\ UNCHANGED <<graphVars, client_input, abnf>>

ResumeIteration ==
    /\ InRun("resume")
    /\ \E r \in {ResumeBody(Running, call.input)} :
          IF r.ret = "reenter"
          THEN EnterWith([r.m EXCEPT !.start_state_ = r.m.current_state_],
                         r.remaining_input,
                         Append(call.frames, [input |-> call.input,
                                              position |-> call.position,
                                              saved_start |-> r.m.start_state_]))
          ELSE /\ Install(r.m)
               /\ call' = IF r.ret = "resume"
                          THEN At("resume", "running", call.input, call.position, call.frames)
                          ELSE IF r.ret = "THROW"
                               THEN At("done", "THROW", call.input, call.position, call.frames)
                               ELSE At("return", "running", call.input, call.position,
                                       call.frames) @@ [result |-> r.ret]
    /\ UNCHANGED <<graphVars, client_input, abnf>>

\* return: to the client, or to the caller's start_state_ = saved_start.
Return ==
    /\ InRun("return")
    /\ IF call.frames = <<>>
       THEN /\ call' = At("done", call.result, call.input, call.position, <<>>)
            /\ UNCHANGED <<execVars, history, user_data_>>
       ELSE \E frame \in {call.frames[Len(call.frames)]} :
               /\ Install([Running EXCEPT !.start_state_ = frame.saved_start])
               /\ call' = IF call.result = "TRUE"
                          THEN At("return", "running", frame.input, frame.position,
                                  SubSeq(call.frames, 1, Len(call.frames) - 1))
                               @@ [result |-> "TRUE"]
                          ELSE At("resume", "running", frame.input, frame.position,
                                  SubSeq(call.frames, 1, Len(call.frames) - 1))
    /\ UNCHANGED <<graphVars, client_input, abnf>>

\* Candidate edges: states 1 and 2 each have two edges on byte a.
StepPool ==
    << Edge(1, 1, "ABNF_RULE", {ByteA}, PRIORITY_HIGH),
       Edge(1, 2, "ABNF_RULE", {ByteA}, PRIORITY_NORMAL),
       Edge(2, 2, "ABNF_RULE", {ByteA}, PRIORITY_HIGH),
       Edge(2, 3, "ABNF_RULE", {ByteA}, PRIORITY_NORMAL),
       Edge(3, 1, "EPSILON", {}, PRIORITY_NORMAL) >>

InitSteps == Constructed(StepPool, {0, 1}, {{}}, SeqsUpTo(MaxLen + 1), CallbackConfigs)

RunStep ==
    \/ LoopIteration
    \/ InputConsumed
    \/ ResumeIteration
    \/ Return

NextSteps == Enter \/ RunStep

\* A call that has been entered goes on running until it returns or throws.
SpecSteps == InitSteps /\ [][NextSteps]_vars /\ WF_vars(RunStep)

\* The run, once over, has done what validateWithBacktracking does in one go.
StepsAgree ==
    (call.op = "validateWithBacktracking" /\ call.pc = "done" /\ start_state_ = 1)
        => \A r \in {validateWithBacktracking(Self, client_input)} :
               r.ret = call.ret /\ r.m = Running

(***************************************************************************)
(* C37: validateWithBacktracking terminates for every graph and input, with *)
(* or without max_backtrack_depth_: a successful backtrack() takes one      *)
(* alternative off the choice point it stops at, whose remaining list so    *)
(* gets strictly shorter, and each recursive call runs on a strictly        *)
(* shorter input.                                                           *)
(***************************************************************************)
C37_Terminates == (call.ret = "running") ~> (call.ret # "running")

\* after is before with its exhausted top choice points popped and the first
\* alternative of the next one erased.
ShrunkBy(before, after) ==
    /\ after # <<>>
    /\ Len(after) <= Len(before)
    /\ SubSeq(before, 1, Len(after) - 1) = SubSeq(after, 1, Len(after) - 1)
    /\ before[Len(after)].remaining # <<>>
    /\ after[Len(after)] = [before[Len(after)] EXCEPT !.remaining = Tail(@)]
    /\ \A k \in (Len(after) + 1)..Len(before) : before[k].remaining = <<>>

C37_AlternativesShrink ==
    [][(/\ call.ret = "running"
        /\ backtracking_stats_'.backtracks_performed
              > backtracking_stats_.backtracks_performed)
          => ShrunkBy(choice_stack_, choice_stack_')]_vars

C37_ShorterInput ==
    [][(call.ret = "running" /\ Len(call'.frames) > Len(call.frames))
          => /\ Len(call'.input) < Len(call.input)
             /\ call'.input = SubSeq(call.input, Len(call.input) - Len(call'.input) + 1,
                                     Len(call.input))
             /\ current_input_' = call'.input]_vars

C37_Termination == C37_Terminates /\ C37_AlternativesShrink /\ C37_ShorterInput

\* A run over that backtracked, called itself on the rest of the input and
\* backtracked there again.
C37_Witness ==
    /\ call.op = "validateWithBacktracking"
    /\ call.pc = "done"
    /\ call.ret \in {"TRUE", "FALSE"}
    /\ Len(client_input) = MaxLen + 1
    /\ Len(current_input_) < Len(client_input)
    /\ backtracking_stats_.backtracks_performed > 0
    /\ Len(SelectSeq(history, LAMBDA e : e.kind = "restore")) >= 2

(***************************************************************************)
(* C38: validateWithBacktracking leaves start_state_ equal to its value     *)
(* before the call whatever the outcome (the start state it sets for the    *)
(* recursive call is always put back), and never changes the states, the    *)
(* transition list or the accept states.                                    *)
(***************************************************************************)
C38_StartStateKept ==
    [][call'.op = "validateWithBacktracking" => start_state_' = start_state_]_vars

C38_GraphKept ==
    [][call'.op = "validateWithBacktracking"
          => /\ states_' = states_
             /\ transitions_' = transitions_
             /\ accept_states_' = accept_states_]_vars

C38_Frame == C38_StartStateKept /\ C38_GraphKept

\* The same, for the calls that return true or false.
C38_StartStateKeptOnReturn ==
    [][(call'.op = "validateWithBacktracking" /\ call'.ret # "THROW")
          => start_state_' = start_state_]_vars

\* The client validates whole inputs on the graphs on which the recursive
\* call is made.
SpecReentry == InitSteps /\ [][NextBacktrack]_vars

(***************************************************************************)
(* Accept states: addAcceptState, removeAcceptState, isAcceptState          *)
(***************************************************************************)
\* accept_states_.erase(state): no test of the state, State::type stays.
removeAcceptState(g, state) == [g EXCEPT !.accept_states_ = @ \ {state}]

\* addState(name, type) with any of the types a client may pass.
AddStateOfType ==
    /\ next_state_id_ <= MaxStates
    /\ \E type \in {"NORMAL", "ACCEPT", "START"} :
          /\ InstallGraph(addState(Graph, type))
          /\ call' = [op |-> "addState", ret |-> "OK", type |-> type]

SetStartStateTo ==
    \E state \in 1..next_state_id_ :
        \E r \in {setStartState(Graph, state)} :
            InstallGraph(r.m)
            /\ call' = [op |-> "setStartState", ret |-> Returned(r), state |-> state]

AddAcceptStateOf ==
    \E state \in 1..next_state_id_ :
        \E r \in {addAcceptState(Graph, state)} :
            InstallGraph(r.m)
            /\ call' = [op |-> "addAcceptState", ret |-> Returned(r), state |-> state]

RemoveAcceptState ==
    \E state \in 1..next_state_id_ :
        /\ InstallGraph(removeAcceptState(Graph, state))
        /\ call' = [op |-> "removeAcceptState", ret |-> "OK", state |-> state]

\* validate(""), on a graph without transitions: rebuildTransitionMap leaves
\* the empty index.
ValidateEmptyInput ==
    /\ transitions_ = <<>>
    /\ \E r \in {validate(Self, <<>>)} :
          Install(r.m) /\ call' = [op |-> "validate", ret |-> r.ret]
    /\ transition_map_' = <<>>
    /\ transition_map_dirty_' = FALSE
    /\ UNCHANGED <<states_, next_state_id_, next_transition_id_, transitions_,
                   accept_states_, on_entry, on_exit, on_transition, debug_flags,
                   max_backtrack_depth_, is_choice_point, client_input, abnf>>

NextAccept ==
    \/ AddStateOfType
    \/ SetStartStateTo
    \/ AddAcceptStateOf
    \/ RemoveAcceptState
    \/ ValidateEmptyInput

SpecAccept == InitBuild /\ [][NextAccept]_vars

(***************************************************************************)
(* C39: acceptance depends on membership in accept_states_ only, never on   *)
(* the type of the state: a state created with type ACCEPT that was never   *)
(* passed to addAcceptState is not accepting, a state passed to             *)
(* removeAcceptState stops being accepting, and a START state passed to     *)
(* addAcceptState is accepting, so that validate("") returns true.          *)
(***************************************************************************)
\* The states that were passed to addAcceptState and not to removeAcceptState
\* since: kept by the two calls as the claim says.
C39_AcceptCalls ==
    [][/\ (call'.op = "addAcceptState" /\ call'.ret = "OK")
            => accept_states_' = accept_states_ \cup {call'.state}
       /\ call'.op = "removeAcceptState"
            => accept_states_' = accept_states_ \ {call'.state}
       /\ call'.op \notin {"addAcceptState", "removeAcceptState"}
            => accept_states_' = accept_states_]_vars

C39_ValidateEmpty ==
    call.op = "validate" =>
        (call.ret = "TRUE" <=> (start_state_ # InvalidId /\ start_state_ \in accept_states_))

C39_IsAcceptState ==
    \A s \in DOMAIN states_ : isAcceptState(s) <=> s \in accept_states_

C39_MembershipOnly == []C39_ValidateEmpty /\ []C39_IsAcceptState /\ C39_AcceptCalls

\* validate("") has accepted in a state of type START while another state of
\* type ACCEPT is not in accept_states_.
C39_Witness ==
    /\ call.op = "validate"
    /\ call.ret = "TRUE"
    /\ states_[start_state_] = "START"
    /\ \E s \in DOMAIN states_ : states_[s] = "ACCEPT" /\ ~isAcceptState(s)

(***************************************************************************)
(* Composition: an inner FSM merged between the two states of an outer one  *)
(***************************************************************************)
\* The per-state lists of an FSM given as a record, as its own
\* rebuildTransitionMap builds them.
IndexOf(fsm) ==
    [s \in DOMAIN fsm.states_ |->
        SortByPriority(SelectSeq(fsm.transitions_, LAMBDA t : t.from = s))]

RECURSIVE GreedyEnd(_, _, _)
\* The state the byte loop of validate ends in, InvalidId when a byte has no
\* matching transition.
GreedyEnd(index, s, x) ==
    IF x = <<>> THEN s
    ELSE LET k == FirstMatch(index[s], Head(x))
         IN  IF k = 0 THEN InvalidId ELSE GreedyEnd(index, index[s][k].to, Tail(x))

RECURSIVE ClosureOf(_, _, _)
\* The state processEpsilonTransitions ends in.
ClosureOf(index, s, visited) ==
    LET k == FirstEpsilon(index[s], visited)
    IN  IF k = 0 THEN s
        ELSE ClosureOf(index, index[s][k].to, visited \cup {index[s][k].to})

\* fsm.validate(x) for an FSM without callbacks, given as a record.
Accepts(fsm, x) ==
    LET end == GreedyEnd(IndexOf(fsm), fsm.start_state_, x)
    IN  /\ fsm.start_state_ # InvalidId
        /\ end # InvalidId
        /\ ClosureOf(IndexOf(fsm), end, {end}) \in fsm.accept_states_

\* Candidate edges of the inner FSM: states 1, 2, 3, start state 1.
InnerPool ==
    << Edge(1, 2, "ABNF_RULE", {ByteA}, PRIORITY_HIGH),
       Edge(1, 3, "ABNF_RULE", {ByteB}, PRIORITY_NORMAL),
       Edge(2, 2, "ABNF_RULE", {ByteA}, PRIORITY_NORMAL),
       Edge(2, 3, "EPSILON", {}, PRIORITY_NORMAL),
       Edge(1, 1, "ABNF_RULE", {ByteB}, PRIORITY_LOW) >>

\* One accept state, two accept states, the start state among them.
InnerAccepts == {{3}, {2}, {2, 3}, {1, 3}}

InnerFSMs ==
    {[states_ |-> [s \in States |-> StateTypeOf(s, 1, accepts)],
      start_state_ |-> 1,
      accept_states_ |-> accepts,
      transitions_ |-> WithIds(SubSeq2(InnerPool, keep))] :
        accepts \in InnerAccepts, keep \in SUBSET (1..Len(InnerPool))}

\* The outer FSM: state 1 is its start state, state 2 its only accept state,
\* and it has no transitions.
InitCompose ==
    /\ states_ = <<"START", "ACCEPT">>
    /\ next_state_id_ = 3
    /\ next_transition_id_ = 1
    /\ transitions_ = <<>>
    /\ transition_map_ = <<>>
    /\ transition_map_dirty_ = TRUE
    /\ accept_states_ = {2}
    /\ on_entry = <<"none", "none">>
    /\ on_exit = <<"none", "none">>
    /\ on_transition = <<>>
    /\ debug_flags \in FlagSets
    /\ max_backtrack_depth_ = 0
    /\ is_choice_point = {}
    /\ start_state_ = 1
    /\ current_state_ = 1
    /\ last_error_ = NoError
    /\ trace_ = <<>>
    /\ metrics_ = ZeroMetrics
    /\ captures_ = <<>>
    /\ active_captures_ = <<>>
    /\ current_input_position_ = 0
    /\ current_input_ = <<>>
    /\ stream_state_ = "READY"
    /\ streaming_mode_ = FALSE
    /\ choice_stack_ = <<>>
    /\ backtracking_stats_ = ZeroStats
    /\ client_input \in Inputs
    /\ call = [op |-> "construct", ret |-> "none"]
    /\ history = <<>>
    /\ user_data_ = <<>>
    /\ abnf = <<>>

\* mergeEmbeddedFSM(from, to, inner) with from the start state and to the
\* accept state of the outer FSM; the client keeps the inner FSM.
MergeInner ==
    /\ call.op = "construct"
    /\ \E embedded_fsm \in InnerFSMs :
          \E order \in Orders(DOMAIN embedded_fsm.states_
                              \ ({embedded_fsm.start_state_} \cup embedded_fsm.accept_states_)) :
              \E r \in {mergeEmbeddedFSM(Graph, 1, 2, embedded_fsm, order)} :
                  \E sorted \in sortTransitionsByPriority(r.m.transitions_) :
                      /\ InstallGraph([r.m EXCEPT !.transitions_ = sorted,
                                                  !.transition_map_dirty_ = TRUE])
                      /\ call' = [op |-> "mergeEmbeddedFSM", ret |-> Returned(r),
                                  from |-> 1, to |-> 2, embedded_fsm |-> embedded_fsm]

\* getTransitionsFrom on the outer FSM after the merge: the index is rebuilt.
\* The client still holds the inner FSM.
LookupOuter ==
    /\ call.op = "mergeEmbeddedFSM"
    /\ transition_map_' \in RebuiltMaps(transitions_)
    /\ transition_map_dirty_' = FALSE
    /\ call' = [call EXCEPT !.op = "getTransitionsFrom"]
    /\ UNCHANGED <<states_, next_state_id_, next_transition_id_, transitions_,
                   accept_states_, on_entry, on_exit, on_transition, debug_flags,
                   max_backtrack_depth_, is_choice_point, execVars, client_input,
                   history, user_data_, abnf>>

\* validate(x) on the outer FSM, whose index is clean, so that the
\* rebuildTransitionMap of validate returns at once.
ValidateOuter ==
    /\ call.op \in {"getTransitionsFrom", "validate"}
    /\ ~transition_map_dirty_
    /\ \E r \in {validate(Self, client_input)} :
          Install(r.m)
          /\ call' = [op |-> "validate", ret |-> r.ret, embedded_fsm |-> call.embedded_fsm]
    /\ UNCHANGED <<graphVars, client_input, abnf>>

NextCompose ==
    \/ MergeInner
    \/ LookupOuter
    \/ ValidateOuter

SpecCompose == InitCompose /\ [][NextCompose]_vars

\* The outer FSM as a record.
Outer ==
    [states_ |-> states_, start_state_ |-> start_state_,
     accept_states_ |-> accept_states_, transitions_ |-> transitions_]

(***************************************************************************)
(* C40: an outer FSM that has only the states from (its start state) and to *)
(* (its only accept state) and no transitions accepts, after                *)
(* mergeEmbeddedFSM(from, to, inner), exactly the inputs that inner's       *)
(* validate accepts, for every inner FSM, those with several accept states  *)
(* included.                                                                *)
(***************************************************************************)
C40_SameLanguage ==
    call.op = "validate" =>
        (call.ret = "TRUE" <=> Accepts(call.embedded_fsm, client_input))

\* The same for inner FSMs with one accept state that is not the start state.
C40_OneAcceptState ==
    (/\ call.op = "validate"
     /\ Cardinality(call.embedded_fsm.accept_states_) = 1
     /\ call.embedded_fsm.start_state_ \notin call.embedded_fsm.accept_states_)
        => (call.ret = "TRUE" <=> Accepts(call.embedded_fsm, client_input))

\* The same for inner FSMs whose start state is not an accept state.
C40_StartNotAccepting ==
    (/\ call.op = "validate"
     /\ call.embedded_fsm.start_state_ \notin call.embedded_fsm.accept_states_)
        => (call.ret = "TRUE" <=> Accepts(call.embedded_fsm, client_input))

\* Accepts is what validate computes, on the outer FSM.
AcceptsIsValidate ==
    call.op = "validate" => (call.ret = "TRUE" <=> Accepts(Outer, client_input))

====
